---- MODULE Spec2Model ----
(***************************************************************************)
(* Model of the record filter / sort / bulk-edit engine of the Monster     *)
(* Manager (src/docs/development/tools/monster_manager.py) and of the bulk *)
(* edit of the item editor (src/tools/advanced_item_editor.py).            *)
(*                                                                         *)
(* Python values are tagged records [t, v]:                                *)
(*   strings are sequences of one-character strings, numbers are counted   *)
(*   in quarters for floats (v = 1 is 0.25) and in units for ints, a dict  *)
(*   is a total function over Fields whose absent keys hold Missing, and   *)
(*   objects live in `heap` so that two lists can share one dict.          *)
(***************************************************************************)
EXTENDS Integers, Sequences, FiniteSets, TLC

VARIABLES
    heap,               \* address -> dict: every monster dict alive
    monsters_data,      \* self.monsters_data: list of addresses
    selected_monsters,  \* self.selected_monsters: list of addresses
    files,              \* MONSTER_DIR: file stem -> JSON object
    unwritable,         \* file stems whose open(..., 'w') raises
    search_var,         \* self.search_var (text of the quick search entry)
    filter_criteria,    \* self.filter_criteria: list of <<field, criterion>>
    sort_column,        \* self.sort_column
    sort_reverse,       \* self.sort_reverse
    items,              \* self.items of the item editor: file stem -> item dict
    current_item_key,   \* self.current_item_key of the item editor, NoKey for None
    images,             \* the time-of-day image directory: path -> image
    field_widgets,      \* item editor: the text of each widget of the form
    pc,                 \* "ready" (Monster Manager), "items" or "edit" (item editor),
                        \* "shell" (script) before the call under study, "done" after
    call                \* what the last call received and returned

vars == <<heap, monsters_data, selected_monsters, files, unwritable,
          search_var, filter_criteria, sort_column, sort_reverse, items, current_item_key,
          images, field_widgets, pc, call>>

\* self.current_item_key = None
NoKey == <<"None">>

\* no image directory
NoImages == <<>>

\* the item editor is not open
NoWidgets == <<>>

-----------------------------------------------------------------------------
(* Sequences *)

Range(s) == {s[i] : i \in DOMAIN s}

Reverse(s) == [i \in 1..Len(s) |-> s[Len(s) + 1 - i]]

RECURSIVE SelectIdx(_, _)
\* The elements of s at the indices of the set keep, in order.
SelectIdx(s, keep) ==
    IF s = <<>> THEN <<>>
    ELSE LET n == Len(s)
             front == SelectIdx(SubSeq(s, 1, n - 1), keep)
         IN  IF n \in keep THEN Append(front, s[n]) ELSE front

RECURSIVE Flatten(_)
Flatten(ss) == IF ss = <<>> THEN <<>> ELSE Head(ss) \o Flatten(Tail(ss))

-----------------------------------------------------------------------------
(* Python str *)

Ascii == <<"\t", "\n", " ", "'", ",", "-", ".",
           "0", "1", "2", "3", "4", "5", "6", "7", "8", "9",
           "A", "B", "C", "D", "E", "F", "G", "H", "I", "J", "K", "L", "M",
           "N", "O", "P", "Q", "R", "S", "T", "U", "V", "W", "X", "Y", "Z",
           "[", "]", "_",
           "a", "b", "c", "d", "e", "f", "g", "h", "i", "j", "k", "l", "m",
           "n", "o", "p", "q", "r", "s", "t", "u", "v", "w", "x", "y", "z">>

Chars == {Ascii[i] : i \in DOMAIN Ascii}

CodeOf == [c \in Chars |-> CHOOSE i \in DOMAIN Ascii : Ascii[i] = c]

\* the rank of a character in code-point order
CharCode(c) == CodeOf[c]

UpperFirst == CharCode("A")
LowerFirst == CharCode("a")

IsUpper(c) == CharCode(c) >= UpperFirst /\ CharCode(c) < UpperFirst + 26
IsLowerAlpha(c) == CharCode(c) >= LowerFirst /\ CharCode(c) < LowerFirst + 26
IsDigit(c) == c \in {"0", "1", "2", "3", "4", "5", "6", "7", "8", "9"}
IsSpace(c) == c \in {" ", "\t", "\n"}
\* \w of the re module
IsWord(c) == IsUpper(c) \/ IsLowerAlpha(c) \/ IsDigit(c) \/ c = "_"

LowerOf == [c \in Chars |-> IF IsUpper(c) THEN Ascii[CharCode(c) - UpperFirst + LowerFirst] ELSE c]

LowerChar(c) == LowerOf[c]

\* str.lower()
Lower(s) == [i \in 1..Len(s) |-> LowerChar(s[i])]

\* str.strip()
Strip(s) ==
    LET ink == {i \in 1..Len(s) : ~IsSpace(s[i])}
    IN  IF ink = {} THEN <<>>
        ELSE SubSeq(s, CHOOSE i \in ink : \A j \in ink : i <= j,
                       CHOOSE i \in ink : \A j \in ink : j <= i)

\* q in s
IsSubstring(q, s) ==
    \E i \in 0..(Len(s) - Len(q)) : SubSeq(s, i + 1, i + Len(q)) = q

RECURSIVE Split(_, _)
\* s.split(sep) for a one-character separator
Split(s, sep) ==
    LET at == {i \in 1..Len(s) : s[i] = sep}
    IN  IF at = {} THEN <<s>>
        ELSE LET i == CHOOSE k \in at : \A j \in at : k <= j
             IN  <<SubSeq(s, 1, i - 1)>> \o Split(SubSeq(s, i + 1, Len(s)), sep)

RECURSIVE Join(_, _)
\* sep.join(parts)
Join(sep, parts) ==
    IF parts = <<>> THEN <<>>
    ELSE IF Len(parts) = 1 THEN parts[1]
    ELSE parts[1] \o sep \o Join(sep, Tail(parts))

RECURSIVE StrLess(_, _)
\* a < b on str: lexicographic by code point
StrLess(a, b) ==
    IF b = <<>> THEN FALSE
    ELSE IF a = <<>> THEN TRUE
    ELSE IF Head(a) # Head(b) THEN CharCode(Head(a)) < CharCode(Head(b))
    ELSE StrLess(Tail(a), Tail(b))

-----------------------------------------------------------------------------
(* Python values *)

Missing == [t |-> "missing", v |-> 0]     \* the key is not in the dict
None == [t |-> "null", v |-> 0]
VInt(n) == [t |-> "int", v |-> n]
VFloat(q) == [t |-> "float", v |-> q]     \* q quarters
VStr(s) == [t |-> "str", v |-> s]
VList(l) == [t |-> "list", v |-> l]       \* a list of str
Infinity == [t |-> "inf", v |-> 0]        \* float('inf')

IsNum(x) == x.t \in {"int", "float", "inf"}

\* the value of a finite number in quarters
Quarters(x) == IF x.t = "int" THEN 4 * x.v ELSE x.v

\* a <= b on numbers
NumLeq(a, b) ==
    IF b.t = "inf" THEN TRUE
    ELSE IF a.t = "inf" THEN FALSE
    ELSE Quarters(a) <= Quarters(b)

\* a == b
PyEq(a, b) ==
    IF IsNum(a) /\ IsNum(b)
    THEN IF a.t = "inf" \/ b.t = "inf" THEN a.t = b.t ELSE Quarters(a) = Quarters(b)
    ELSE a = b

RECURSIVE Digits(_)
\* str(n) for n >= 0
Digits(n) ==
    IF n < 10 THEN <<Ascii[CharCode("0") + n]>>
    ELSE Digits(n \div 10) \o <<Ascii[CharCode("0") + (n % 10)]>>

IntStr(n) == IF n < 0 THEN <<"-">> \o Digits(-n) ELSE Digits(n)

FracStr(r) ==
    IF r = 0 THEN <<"0">> ELSE IF r = 1 THEN <<"2", "5">>
    ELSE IF r = 2 THEN <<"5">> ELSE <<"7", "5">>

FloatStr(q) ==
    LET a == IF q < 0 THEN -q ELSE q
    IN  (IF q < 0 THEN <<"-">> ELSE <<>>) \o Digits(a \div 4) \o <<".">> \o FracStr(a % 4)

\* str(x)
PyStr(x) ==
    IF x.t = "str" THEN x.v
    ELSE IF x.t = "int" THEN IntStr(x.v)
    ELSE IF x.t = "float" THEN FloatStr(x.v)
    ELSE IF x.t = "inf" THEN <<"i", "n", "f">>
    ELSE IF x.t = "null" THEN <<"N", "o", "n", "e">>
    ELSE <<"[">> \o Join(<<",", " ">>, [i \in 1..Len(x.v) |-> <<"'">> \o x.v[i] \o <<"'">>])
         \o <<"]">>

DigitVal(c) == CharCode(c) - CharCode("0")

RECURSIVE DigitsVal(_)
DigitsVal(ds) ==
    IF ds = <<>> THEN 0 ELSE 10 * DigitsVal(SubSeq(ds, 1, Len(ds) - 1)) + DigitVal(ds[Len(ds)])

AllDigits(ds) == ds # <<>> /\ \A i \in 1..Len(ds) : IsDigit(ds[i])

Unsigned(s) == IF s # <<>> /\ Head(s) \in {"-", "+"} THEN Tail(s) ELSE s
Sign(s) == IF s # <<>> /\ Head(s) = "-" THEN -1 ELSE 1

\* int(s) for a str: [ok, v]; ok = FALSE is ValueError
ParseInt(s0) ==
    LET s == Strip(s0)
        u == Unsigned(s)
    IN  IF AllDigits(u) THEN [ok |-> TRUE, v |-> VInt(Sign(s) * DigitsVal(u))]
        ELSE [ok |-> FALSE, v |-> None]

\* the fractions that are whole quarters
FracQuarters(f) ==
    IF f \in {<<>>, <<"0">>, <<"0", "0">>} THEN 0
    ELSE IF f = <<"2", "5">> THEN 1
    ELSE IF f \in {<<"5">>, <<"5", "0">>} THEN 2
    ELSE IF f = <<"7", "5">> THEN 3
    ELSE -1

\* float(s) for a str: [ok, v]; ok = FALSE is ValueError.  Decimal literals
\* whose value is a whole number of quarters, and inf.
ParseFloat(s0) ==
    LET s == Strip(s0)
        u == Unsigned(s)
        dot == {i \in 1..Len(u) : u[i] = "."}
    IN  IF Lower(u) \in {<<"i", "n", "f">>} /\ Sign(s) = 1
        THEN [ok |-> TRUE, v |-> Infinity]
        ELSE IF dot = {}
        THEN IF AllDigits(u) THEN [ok |-> TRUE, v |-> VFloat(Sign(s) * 4 * DigitsVal(u))]
             ELSE [ok |-> FALSE, v |-> None]
        ELSE LET d == CHOOSE i \in dot : TRUE
                 ip == SubSeq(u, 1, d - 1)
                 fp == SubSeq(u, d + 1, Len(u))
             IN  IF Cardinality(dot) = 1 /\ (ip # <<>> \/ fp # <<>>)
                    /\ (ip = <<>> \/ AllDigits(ip)) /\ (fp = <<>> \/ AllDigits(fp))
                    /\ FracQuarters(fp) >= 0
                 THEN [ok |-> TRUE,
                       v |-> VFloat(Sign(s) * (4 * DigitsVal(ip) + FracQuarters(fp)))]
                 ELSE [ok |-> FALSE, v |-> None]

\* float(x): [ok, v]; ok = FALSE is ValueError or TypeError
ToFloat(x) ==
    IF x.t = "int" THEN [ok |-> TRUE, v |-> VFloat(4 * x.v)]
    ELSE IF x.t \in {"float", "inf"} THEN [ok |-> TRUE, v |-> x]
    ELSE IF x.t = "str" THEN ParseFloat(x.v)
    ELSE [ok |-> FALSE, v |-> None]

\* truncation toward zero of q quarters
Trunc(q) == IF q >= 0 THEN q \div 4 ELSE -((-q) \div 4)

\* int(x): [ok, v]; ok = FALSE is ValueError, TypeError or OverflowError
ToInt(x) ==
    IF x.t = "int" THEN [ok |-> TRUE, v |-> x]
    ELSE IF x.t = "float" THEN [ok |-> TRUE, v |-> VInt(Trunc(x.v))]
    ELSE IF x.t = "str" THEN ParseInt(x.v)
    ELSE [ok |-> FALSE, v |-> None]

-----------------------------------------------------------------------------
(* Monster dicts *)

Fields == {"name", "type", "alignment", "tags", "challenge_rating", "armor_class",
           "hit_points", "size", "id", "filename"}

EmptyDict == [f \in Fields |-> Missing]

\* d.get(f, default)
Get(d, f, default) == IF d[f] = Missing THEN default ELSE d[f]

\* f in d
Has(d, f) == d[f] # Missing

EmptyStr == VStr(<<>>)

-----------------------------------------------------------------------------
(* list.sort(key=..., reverse=...) *)

\* a < b on two sort keys of one kind (both str, or both numbers)
KeyLess(a, b) ==
    IF a.t = "str" THEN StrLess(a.v, b.v)
    ELSE IF a.t = "inf" THEN FALSE
    ELSE IF b.t = "inf" THEN TRUE
    ELSE Quarters(a) < Quarters(b)

RECURSIVE InsertSorted(_, _, _, _)
\* x (with key kx) goes behind every element of the sorted list that is not greater
InsertSorted(x, kx, sorted, keys) ==
    IF sorted = <<>> THEN <<[x |-> x, k |-> kx]>>
    ELSE IF KeyLess(kx, Head(sorted).k)
         THEN <<[x |-> x, k |-> kx]>> \o sorted
         ELSE <<Head(sorted)>> \o InsertSorted(x, kx, Tail(sorted), keys)

RECURSIVE StableSorted(_, _)
\* the (element, key) pairs of xs in ascending key order, ties in list order
StableSorted(xs, keys) ==
    IF xs = <<>> THEN <<>>
    ELSE LET n == Len(xs)
         IN  InsertSorted(xs[n], keys[n], StableSorted(SubSeq(xs, 1, n - 1), SubSeq(keys, 1, n - 1)),
                          keys)

\* a sort that reverses the ascending result: ties come out in reversed order
PySort_ReverseAfter(xs, keys, reverse) ==
    LET up == StableSorted(xs, keys)
        asc == [i \in 1..Len(xs) |-> up[i].x]
    IN  IF reverse THEN Reverse(asc) ELSE asc

\* a sort that forgets the reverse flag
PySort_IgnoresReverse(xs, keys, reverse) ==
    LET up == StableSorted(xs, keys)
    IN  [i \in 1..Len(xs) |-> up[i].x]

\* xs after xs.sort(key, reverse): keys[i] is key(xs[i]).  CPython reverses the
\* list, sorts it stably and reverses it again, which keeps ties in list order.
PySort(xs, keys, reverse) ==
    LET up == StableSorted(xs, keys)
        down == StableSorted(Reverse(xs), Reverse(keys))
    IN  IF reverse THEN Reverse([i \in 1..Len(xs) |-> down[i].x])
        ELSE [i \in 1..Len(xs) |-> up[i].x]

-----------------------------------------------------------------------------
(* MonsterManagerGUI.apply_filters_and_sort *)

SearchFields == <<"name", "type", "alignment">>

SortableColumns == {"name", "challenge_rating", "type", "size", "armor_class",
                    "hit_points", "alignment"}

\* search_query = self.search_var.get().strip().lower()
SearchQuery(text) == Lower(Strip(text))

\* a search that forgets the tags
Searchable_NoTags(m) ==
    [raised |-> FALSE,
     texts |-> [i \in 1..Len(SearchFields) |-> Lower(PyStr(Get(m, SearchFields[i], EmptyStr)))]]

\* the searchable texts of one monster: [raised, texts]
Searchable(m) ==
    LET base == [i \in 1..Len(SearchFields) |-> Lower(PyStr(Get(m, SearchFields[i], EmptyStr)))]
        tags == m["tags"]
    IN  IF ~Has(m, "tags") THEN [raised |-> FALSE, texts |-> base]
        ELSE IF tags.t = "list"
        THEN [raised |-> FALSE, texts |-> base \o [i \in 1..Len(tags.v) |-> Lower(tags.v[i])]]
        ELSE IF tags.t = "str"
        THEN [raised |-> FALSE, texts |-> base \o [i \in 1..Len(tags.v) |-> <<LowerChar(tags.v[i])>>]]
        ELSE [raised |-> TRUE, texts |-> base]

\* any(search_query in text for text in searchable)
MatchesSearch(m, query) ==
    LET texts == Searchable(m).texts
    IN  \E i \in 1..Len(texts) : IsSubstring(query, texts[i])

\* the quick search: [raised, out, fresh]; fresh says that out is a new list
SearchStage(h, monsters, query) ==
    IF query = <<>> THEN [raised |-> FALSE, out |-> monsters, fresh |-> FALSE]
    ELSE [raised |-> \E i \in 1..Len(monsters) : Searchable(h[monsters[i]]).raised,
          out |-> SelectIdx(monsters, {i \in 1..Len(monsters) : MatchesSearch(h[monsters[i]], query)}),
          fresh |-> TRUE]

EmptyCriterion == [type |-> "empty", min |-> None, max |-> None, value |-> None]
RangeCriterion(lo, hi) == [type |-> "range", min |-> lo, max |-> hi, value |-> None]
ContainsCriterion(val) == [type |-> "contains", min |-> None, max |-> None, value |-> val]
EqualsCriterion(val) == [type |-> "equals", min |-> None, max |-> None, value |-> val]

\* a range test that drops the records without the field
InRange_MissingDropped(m, field, criteria) ==
    LET x == Get(m, field, VInt(0))
    IN  IF ~IsNum(x) THEN [raised |-> TRUE, keep |-> FALSE]
        ELSE [raised |-> FALSE,
              keep |-> Has(m, field) /\ NumLeq(criteria.min, x) /\ NumLeq(x, criteria.max)]

\* a range test with exclusive ends
InRange_Exclusive(m, field, criteria) ==
    LET x == Get(m, field, VInt(0))
    IN  IF ~IsNum(x) THEN [raised |-> TRUE, keep |-> FALSE]
        ELSE [raised |-> FALSE,
              keep |-> ~NumLeq(x, criteria.min) /\ ~NumLeq(criteria.max, x)]

\* min_val <= m.get(field, 0) <= max_val: [raised, keep]
InRange(m, field, criteria) ==
    LET x == Get(m, field, VInt(0))
    IN  IF ~IsNum(x) THEN [raised |-> TRUE, keep |-> FALSE]
        ELSE [raised |-> FALSE, keep |-> NumLeq(criteria.min, x) /\ NumLeq(x, criteria.max)]

\* a contains test that forgets to lower-case the criterion value
ContainsValue_CaseSensitive(m, field, criteria) ==
    IsSubstring(criteria.value.v, Lower(PyStr(Get(m, field, EmptyStr))))

\* value in str(m.get(field, '')).lower()
ContainsValue(m, field, criteria) ==
    IsSubstring(Lower(criteria.value.v), Lower(PyStr(Get(m, field, EmptyStr))))

\* an equals test on the string form of the field
EqualsValue_Stringified(m, field, criteria) ==
    PyEq(VStr(PyStr(Get(m, field, None))), criteria.value)

\* m.get(field) == value
EqualsValue(m, field, criteria) == PyEq(Get(m, field, None), criteria.value)

\* one pass of the loop over self.filter_criteria.items(): [raised, out, fresh]
CriterionStage(h, filtered, field, criteria) ==
    LET idx == 1..Len(filtered)
        rec(i) == h[filtered[i]]
    IN  IF criteria.type = "range"
        THEN [raised |-> \E i \in idx : InRange(rec(i), field, criteria).raised,
              out |-> SelectIdx(filtered, {i \in idx : InRange(rec(i), field, criteria).keep}),
              fresh |-> TRUE]
        ELSE IF criteria.type = "contains"
        THEN IF criteria.value.t # "str" THEN [raised |-> TRUE, out |-> filtered, fresh |-> FALSE]
             ELSE [raised |-> FALSE,
                   out |-> SelectIdx(filtered, {i \in idx : ContainsValue(rec(i), field, criteria)}),
                   fresh |-> TRUE]
        ELSE IF criteria.type = "equals"
        THEN [raised |-> FALSE,
              out |-> SelectIdx(filtered, {i \in idx : EqualsValue(rec(i), field, criteria)}),
              fresh |-> TRUE]
        ELSE [raised |-> FALSE, out |-> filtered, fresh |-> FALSE]

\* a loop that stops after the first criterion
CriteriaStage_FirstOnly(h, st, fc) ==
    IF fc = <<>> \/ st.raised THEN st
    ELSE LET one == CriterionStage(h, st.out, Head(fc)[1], Head(fc)[2])
         IN  [raised |-> one.raised, out |-> one.out, fresh |-> st.fresh \/ one.fresh]

RECURSIVE CriteriaStage(_, _, _)
\* the loop over self.filter_criteria.items(), from the state st = [raised, out, fresh]
CriteriaStage(h, st, fc) ==
    IF fc = <<>> \/ st.raised THEN st
    ELSE LET one == CriterionStage(h, st.out, Head(fc)[1], Head(fc)[2])
         IN  CriteriaStage(h, [raised |-> one.raised, out |-> one.out,
                               fresh |-> st.fresh \/ one.fresh], Tail(fc))

\* a sort key that compares the strings as they are written
SortKey_CaseSensitive(m, column) ==
    LET value == Get(m, column, EmptyStr)
    IN  IF column = "challenge_rating"
        THEN IF value # EmptyStr THEN [ok |-> ToFloat(value).ok, key |-> ToFloat(value).v]
             ELSE [ok |-> TRUE, key |-> VInt(0)]
        ELSE IF column \in {"armor_class", "hit_points"}
        THEN IF value # EmptyStr THEN [ok |-> ToInt(value).ok, key |-> ToInt(value).v]
             ELSE [ok |-> TRUE, key |-> VInt(0)]
        ELSE [ok |-> TRUE, key |-> VStr(PyStr(value))]

\* sort_key(monster): [ok, key]; ok = FALSE when float() or int() raises
SortKey(m, column) ==
    LET value == Get(m, column, EmptyStr)
    IN  IF column = "challenge_rating"
        THEN IF value # EmptyStr THEN [ok |-> ToFloat(value).ok, key |-> ToFloat(value).v]
             ELSE [ok |-> TRUE, key |-> VInt(0)]
        ELSE IF column \in {"armor_class", "hit_points"}
        THEN IF value # EmptyStr THEN [ok |-> ToInt(value).ok, key |-> ToInt(value).v]
             ELSE [ok |-> TRUE, key |-> VInt(0)]
        ELSE [ok |-> TRUE, key |-> VStr(Lower(PyStr(value)))]

\* a sort step that falls back to the name when no column is set
SortStage_SortsByDefault(h, filtered, column, reverse) ==
    LET col == IF column \in SortableColumns THEN column ELSE "name"
        ks == [i \in 1..Len(filtered) |-> SortKey(h[filtered[i]], col)]
        keys == [i \in 1..Len(filtered) |-> ks[i].key]
    IN  IF \E i \in 1..Len(filtered) : ~ks[i].ok
        THEN [raised |-> TRUE, out |-> filtered]
        ELSE [raised |-> FALSE, out |-> PySort(filtered, keys, reverse)]

\* the sort step on the list `filtered`: [raised, out]
SortStage(h, filtered, column, reverse) ==
    IF column \in SortableColumns
    THEN LET ks == [i \in 1..Len(filtered) |-> SortKey(h[filtered[i]], column)]
             keys == [i \in 1..Len(filtered) |-> ks[i].key]
         IN  IF \E i \in 1..Len(filtered) : ~ks[i].ok
             THEN [raised |-> TRUE, out |-> filtered]
             ELSE [raised |-> FALSE, out |-> PySort(filtered, keys, reverse)]
    ELSE [raised |-> FALSE, out |-> filtered]

\* the end of apply_filters_and_sort, `narrowed` being what the search and the
\* criteria left and `sorted` what the sort step made of it
ReturnFiltered(monsters, narrowed, sorted) ==
    IF narrowed.raised \/ sorted.raised
    THEN [raised |-> TRUE, filtered |-> <<>>, monsters |-> monsters, aliased |-> FALSE]
    ELSE [raised |-> FALSE, filtered |-> sorted.out,
          monsters |-> IF narrowed.fresh THEN monsters ELSE sorted.out,
          aliased |-> ~narrowed.fresh]

SortAndReturn(h, monsters, narrowed, column, reverse) ==
    ReturnFiltered(monsters, narrowed, SortStage(h, narrowed.out, column, reverse))

\* apply_filters_and_sort(monsters) with the attributes of self it reads:
\*   raised    an exception left the method
\*   filtered  the list returned
\*   monsters  the list passed in, as the call leaves it
\*   aliased   the list returned is the list passed in
ApplyFiltersAndSort(h, monsters, text, fc, column, reverse) ==
    SortAndReturn(h, monsters, CriteriaStage(h, SearchStage(h, monsters, SearchQuery(text)), fc),
                  column, reverse)

-----------------------------------------------------------------------------
(* AdvancedItemEditor: the item list (src/tools/advanced_item_editor.py) *)

ItemFields == {"name", "type", "description", "price", "weight", "stack", "tags", "notes"}

EmptyItem == [f \in ItemFields |-> Missing]

\* not x
Falsy(x) == x \in {None, EmptyStr, VList(<<>>), VInt(0), VFloat(0)}

\* query in item.get(field, '').lower(): [raised, found]
InItemText(item, field, query) ==
    LET x == Get(item, field, EmptyStr)
    IN  IF x.t # "str" THEN [raised |-> TRUE, found |-> FALSE]
        ELSE [raised |-> FALSE, found |-> IsSubstring(query, Lower(x.v))]

\* item.get(field) and any(query in e.lower() for e in item[field]): [raised, found]
InItemList(item, field, query) ==
    LET x == Get(item, field, None)
    IN  IF Falsy(x) THEN [raised |-> FALSE, found |-> FALSE]
        ELSE IF x.t = "list"
        THEN [raised |-> FALSE, found |-> \E i \in 1..Len(x.v) : IsSubstring(query, Lower(x.v[i]))]
        ELSE IF x.t = "str"
        THEN [raised |-> FALSE,
              found |-> \E i \in 1..Len(x.v) : IsSubstring(query, <<LowerChar(x.v[i])>>)]
        ELSE [raised |-> TRUE, found |-> FALSE]

\* item_matches_search(item, query): [raised, match]; the tests run in order
\* and the first that finds the query or raises decides
ItemMatchesSearch(item, query) ==
    LET tests == <<InItemText(item, "name", query), InItemText(item, "type", query),
                   InItemText(item, "description", query), InItemList(item, "tags", query),
                   InItemList(item, "notes", query)>>
        hit == {i \in 1..Len(tests) : tests[i].found}
        bad == {i \in 1..Len(tests) : tests[i].raised}
    IN  [raised |-> \E i \in bad : \A j \in hit : i < j,
         match |-> \E i \in hit : \A j \in bad : i < j]

\* self.items.items(): the keys in the order of the dict
ItemKeys(its) ==
    CHOOSE o \in [1..Cardinality(DOMAIN its) -> DOMAIN its] : Range(o) = DOMAIN its

\* the search filter of refresh_item_list over the keys: [raised, kept]
SearchedItems(its, keys, search_query) ==
    IF search_query = <<>> THEN [raised |-> FALSE, kept |-> keys]
    ELSE [raised |-> \E i \in 1..Len(keys) : ItemMatchesSearch(its[keys[i]], search_query).raised,
          kept |-> SelectIdx(keys, {i \in 1..Len(keys) :
                                      ItemMatchesSearch(its[keys[i]], search_query).match})]

\* sorted(filtered_items.items(), key=lambda x: x[1].get('name', x[0])):
\* [raised, rows]; names that are not all str or all numbers do not compare
SortedItems(kept, names) ==
    IF \/ Len(kept) < 2
       \/ \A i \in 1..Len(kept) : names[i].t = "str"
       \/ \A i \in 1..Len(kept) : IsNum(names[i])
    THEN [raised |-> FALSE, rows |-> PySort(kept, names, FALSE)]
    ELSE [raised |-> TRUE, rows |-> <<>>]

\* the rows of the tree after the search left `searched`
ItemRows(its, searched) ==
    IF searched.raised THEN [raised |-> TRUE, rows |-> <<>>]
    ELSE SortedItems(searched.kept,
                     [i \in 1..Len(searched.kept) |->
                         Get(its[searched.kept[i]], "name", VStr(searched.kept[i]))])

\* refresh_item_list() with the type and tag filters at 'All' and no sort
\* column: [raised, rows], rows the keys of the rows of the tree in order
RefreshItemList(its, text) == ItemRows(its, SearchedItems(its, ItemKeys(its), Lower(text)))

\* the item files
ItemFiles ==
    (<<"r", "o">> :> [EmptyItem EXCEPT !["name"] = VStr(<<"R", "o">>), !["type"] = VStr(<<"G", "e">>),
                         !["price"] = VInt(100), !["weight"] = VInt(10)])
    @@ (<<"s", "w">> :> [EmptyItem EXCEPT !["name"] = VStr(<<"S", "w">>), !["type"] = VStr(<<"W", "e">>),
                         !["price"] = VInt(150), !["weight"] = VFloat(12), !["stack"] = VInt(1),
                         !["description"] = VStr(<<"a", " ", "s">>),
                         !["tags"] = VList(<< <<"m", "a">> >>),
                         !["notes"] = VList(<< <<"D", "r">> >>)])
    @@ (<<"t">> :> [EmptyItem EXCEPT !["type"] = VStr(<<"W", "e">>), !["price"] = None,
                         !["stack"] = VInt(20)])

ItemSearchTexts == { <<>>, <<"d", "r">>, <<"s", " ">>, <<"S">>, <<"M", "a">>, <<" ">> }

-----------------------------------------------------------------------------
(* The filter / sort engine called on bounded inputs *)

MaxRecords == 3

NoColumn == ""      \* self.sort_column is None

NoCall == [op |-> "none", input |-> <<>>, raised |-> FALSE, filtered |-> <<>>,
           aliased |-> FALSE]

NoFiles == [stem \in {} |-> EmptyDict]

NoItems == <<>>     \* self.items = {}

\* a monster as load_monsters yields it
Monster(filename, name, challenge_rating, type, armor_class, tags) ==
    [EmptyDict EXCEPT !["filename"] = VStr(filename), !["name"] = name,
                      !["challenge_rating"] = challenge_rating, !["type"] = type,
                      !["armor_class"] = armor_class, !["tags"] = tags]

ApplyMonsters ==
    { [Monster(<<"1">>, VStr(<<"A", "b">>), VFloat(1), VStr(<<"D", "r">>), VInt(2),
               VList(<< <<"F", "i">> >>)) EXCEPT !["size"] = VStr(<<"L">>)],
      [Monster(<<"2">>, VStr(<<"a", "b">>), VInt(0), VStr(<<"l", "i">>), VFloat(10), Missing)
          EXCEPT !["alignment"] = VStr(<<"a", " ", "d">>)],
      Monster(<<"3">>, VStr(<<"B">>), Missing, Missing, Missing, VList(<<>>)),
      Monster(<<"4">>, VStr(<<"C", "d">>), VInt(-1), VStr(<<"d", "r">>), VInt(1),
              VList(<< <<"a">>, <<"B">> >>)),
      Monster(<<"5">>, None, VStr(<<"x">>), VStr(<<"D", "r">>), Missing, None),
      [Monster(<<"6">>, VStr(<<"E">>), VFloat(96), Missing, VStr(<<"7">>), VList(<< <<"D">> >>))
          EXCEPT !["size"] = VStr(<<"l">>)] }

SearchTexts == { <<>>, <<"a">>, <<"A", " ">>, <<" ">>, <<"d", "r">> }

CriteriaLists ==
    { <<>>,
      << <<"challenge_rating", RangeCriterion(VInt(0), Infinity)>> >>,
      << <<"challenge_rating", RangeCriterion(VFloat(1), VFloat(4))>> >>,
      << <<"type", ContainsCriterion(VStr(<<"d", "r">>))>> >>,
      << <<"size", EqualsCriterion(VStr(<<"L">>))>> >>,
      << <<"type", EmptyCriterion>> >>,
      << <<"armor_class", RangeCriterion(VInt(0), Infinity)>> >>,
      << <<"type", ContainsCriterion(VStr(<<"D", "r">>))>> >>,
      << <<"armor_class", EqualsCriterion(VStr(<<"2">>))>> >>,
      << <<"type", ContainsCriterion(VStr(<<"D", "r">>))>>,
         <<"armor_class", RangeCriterion(VInt(2), Infinity)>> >>,
      << <<"armor_class", RangeCriterion(VInt(2), Infinity)>>,
         <<"type", ContainsCriterion(VStr(<<"D", "r">>))>> >>,
      << <<"challenge_rating", RangeCriterion(VInt(0), Infinity)>>,
         <<"type", EmptyCriterion>>,
         <<"size", EqualsCriterion(VStr(<<"L">>))>> >> }

SortColumns == {NoColumn, "name", "challenge_rating", "armor_class", "cr"}

\* the lists of at most n different elements of S
InjectiveSeqs(S, n) ==
    UNION { {s \in [1..k -> S] : \A i, j \in 1..k : i # j => s[i] # s[j]} : k \in 0..n }

InitApply ==
    /\ heap \in InjectiveSeqs(ApplyMonsters, MaxRecords)
    /\ monsters_data = [i \in 1..Len(heap) |-> i]
    /\ selected_monsters = <<>>
    /\ current_item_key = NoKey
    /\ images = NoImages
    /\ field_widgets = NoWidgets
    /\ files = NoFiles
    /\ unwritable = {}
    /\ search_var \in SearchTexts
    /\ filter_criteria \in CriteriaLists
    /\ sort_column \in SortColumns
    /\ sort_reverse \in BOOLEAN
    /\ items = NoItems
    /\ pc = "ready"
    /\ call = NoCall

\* filtered = self.apply_filters_and_sort(self.monsters_data)
CallApply ==
    /\ pc = "ready"
    /\ \E r \in {ApplyFiltersAndSort(heap, monsters_data, search_var, filter_criteria,
                                      sort_column, sort_reverse)} :
           /\ monsters_data' = r.monsters
           /\ call' = [op |-> "apply", input |-> monsters_data, raised |-> r.raised,
                       filtered |-> r.filtered, aliased |-> r.aliased]
    /\ pc' = "done"
    /\ UNCHANGED <<heap, selected_monsters, files, unwritable, search_var,
                   filter_criteria, sort_column, sort_reverse, items, current_item_key, images, field_widgets>>

\* AdvancedItemEditor.__init__
InitItems ==
    /\ items \in { [s \in S |-> ItemFiles[s]] : S \in SUBSET DOMAIN ItemFiles }
    /\ heap = <<>>
    /\ monsters_data = <<>>
    /\ selected_monsters = <<>>
    /\ current_item_key = NoKey
    /\ images = NoImages
    /\ field_widgets = NoWidgets
    /\ files = NoFiles
    /\ unwritable = {}
    /\ search_var = <<>>
    /\ filter_criteria = <<>>
    /\ sort_column = NoColumn
    /\ sort_reverse = FALSE
    /\ pc = "items"
    /\ call = NoCall

\* on_search of the item editor: the trace of search_var after the user typed
OnItemSearch ==
    /\ pc = "items"
    /\ \E text \in ItemSearchTexts : \E r \in {RefreshItemList(items, text)} :
           /\ search_var' = text
           /\ call' = [op |-> "item_search", raised |-> r.raised, rows |-> r.rows]
    /\ pc' = "done"
    /\ UNCHANGED <<heap, monsters_data, selected_monsters, files, unwritable,
                   filter_criteria, sort_column, sort_reverse, items, current_item_key, images, field_widgets>>

InitSearches == InitApply \/ InitItems

NextApply == CallApply \/ OnItemSearch

SpecApply == InitSearches /\ [][NextApply]_vars

Applied == pc = "done" /\ call.op = "apply"
Returned == Applied /\ ~call.raised
ItemSearched == pc = "done" /\ call.op = "item_search"

-----------------------------------------------------------------------------
(* Claims about apply_filters_and_sort, under SpecApply *)

\* the place of the object a in the list s
PosIn(s, a) == CHOOSE i \in 1..Len(s) : s[i] = a

\* the sort key of the object a under the current sort column
KeyOf(a) == SortKey(heap[a], sort_column).key

KeyEq(a, b) == ~KeyLess(a, b) /\ ~KeyLess(b, a)

NumericColumns == {"challenge_rating", "armor_class", "hit_points"}

\* what the call returns on the same input with one attribute changed
WithReverse(reverse) ==
    ApplyFiltersAndSort(heap, call.input, search_var, filter_criteria, sort_column, reverse)
WithCriteria(fc) ==
    ApplyFiltersAndSort(heap, call.input, search_var, fc, sort_column, sort_reverse)

C2_Pre ==
    Applied /\ search_var = <<>> /\ filter_criteria = <<>> /\ sort_column = NoColumn
C2_IdentityWithoutCriteria ==
    C2_Pre => (~call.raised /\ call.filtered = call.input)
C2_Witness ==
    /\ C2_Pre
    /\ call.filtered = call.input
    /\ Len(call.input) = 3
    /\ \E i \in 1..2 : StrLess(Lower(PyStr(heap[call.input[i + 1]]["name"])),
                               Lower(PyStr(heap[call.input[i]]["name"])))

\* C3: sorting is stable in both directions: two records with equal sort keys
\* come out in the order they had before the sort, ascending or descending.
C3_StableSort ==
    (Returned /\ sort_column \in SortableColumns) =>
        \A i, j \in 1..Len(call.filtered) :
            (i < j /\ KeyEq(KeyOf(call.filtered[i]), KeyOf(call.filtered[j])))
                => PosIn(call.input, call.filtered[i]) < PosIn(call.input, call.filtered[j])
C3_Witness ==
    /\ Returned /\ sort_column \in SortableColumns /\ sort_reverse
    /\ Len(call.filtered) = 3
    /\ \E i, j \in 1..3 : i < j /\ KeyEq(KeyOf(call.filtered[i]), KeyOf(call.filtered[j]))
    /\ \E i, j \in 1..3 : KeyLess(KeyOf(call.filtered[i]), KeyOf(call.filtered[j]))

\* C4 as stated: when the values of a numeric sort field are pairwise distinct,
\* the descending output is the exact reverse of the ascending output.
C4_DistinctValuesReverse ==
    (/\ Returned /\ sort_column \in NumericColumns
     /\ \A i, j \in 1..Len(call.input) :
            i # j => ~PyEq(heap[call.input[i]][sort_column], heap[call.input[j]][sort_column]))
    => call.filtered = Reverse(WithReverse(~sort_reverse).filtered)

\* C4 amended: when the sort keys of a numeric sort field (float(value) for
\* challenge_rating, int(value) for armor_class and hit_points, 0 for a missing
\* or empty value) are pairwise distinct, the descending output is the exact
\* reverse of the ascending output.
C4_Pre ==
    /\ Returned /\ sort_column \in NumericColumns
    /\ \A i, j \in 1..Len(call.input) :
           i # j => ~KeyEq(KeyOf(call.input[i]), KeyOf(call.input[j]))
C4_DistinctKeysReverse ==
    C4_Pre => call.filtered = Reverse(WithReverse(~sort_reverse).filtered)
C4_Witness ==
    C4_Pre /\ sort_reverse /\ Len(call.filtered) = 3 /\ Len(call.input) = 3

\* the criterion {type: range, min: 0, max: inf} on one field, alone
ZeroToInfinity(field) == << <<field, RangeCriterion(VInt(0), Infinity)>> >>
RangeFields == {"challenge_rating", "armor_class"}

\* C5 as stated: a range criterion with min = 0 and max = infinity is a no-op
\* filter: it keeps every record the call would return without it.
C5_RangeIsNoOp ==
    \A field \in RangeFields :
        (Returned /\ filter_criteria = ZeroToInfinity(field))
            => call.filtered = WithCriteria(<<>>).filtered

\* C5 amended: a range criterion with min = 0 and max = infinity keeps exactly
\* the records that lack the field or hold a number >= 0 in it, and drops the
\* records that hold a negative number.
C5_RangeKeepsNonNegative ==
    \A field \in RangeFields :
        (Returned /\ filter_criteria = ZeroToInfinity(field))
            => LET without == WithCriteria(<<>>).filtered
               IN  call.filtered =
                       SelectIdx(without, {i \in 1..Len(without) :
                           \/ ~Has(heap[without[i]], field)
                           \/ Quarters(heap[without[i]][field]) >= 0})
C5_Witness ==
    /\ Returned /\ filter_criteria = ZeroToInfinity("challenge_rating")
    /\ \E a \in Range(call.filtered) : ~Has(heap[a], "challenge_rating")
    /\ \E a \in Range(call.input) :
           /\ a \notin Range(call.filtered)
           /\ Has(heap[a], "challenge_rating")
           /\ Quarters(heap[a]["challenge_rating"]) < 0

\* the search as the claim words it: the query is a substring of the
\* lower-cased name, type or alignment, or of a lower-cased tag
QueryFound(m, query) ==
    \/ \E f \in {"name", "type", "alignment"} :
           IsSubstring(query, Lower(PyStr(Get(m, f, EmptyStr))))
    \/ /\ m["tags"].t = "list"
       /\ \E i \in 1..Len(m["tags"].v) : IsSubstring(query, Lower(m["tags"].v[i]))

\* the item search in the claim's words, the description standing for the
\* alignment
ItemQueryFound(item, query) ==
    \/ \E f \in {"name", "type", "description"} :
           IsSubstring(query, Lower(PyStr(Get(item, f, EmptyStr))))
    \/ /\ item["tags"].t = "list"
       /\ \E i \in 1..Len(item["tags"].v) : IsSubstring(query, Lower(item["tags"].v[i]))

ItemNoteFound(item, query) ==
    /\ item["notes"].t = "list"
    /\ \E i \in 1..Len(item["notes"].v) : IsSubstring(query, Lower(item["notes"].v[i]))

KeptBySearch(query) ==
    IF query # <<>>
    THEN Range(call.filtered) = {a \in Range(call.input) : QueryFound(heap[a], query)}
    ELSE Range(call.filtered) = Range(call.input)

\* C10 as stated: with a non-empty search query, apply keeps a record iff the
\* lower-cased query is a substring of its lower-cased name, type or alignment
\* or of one of its lower-cased tags; with an empty query it removes nothing.
C10_SearchByQuery ==
    /\ (Returned /\ filter_criteria = <<>>) => KeptBySearch(Lower(search_var))
    /\ (ItemSearched /\ ~call.raised)
           => Range(call.rows) =
                  IF search_var # <<>>
                  THEN {key \in DOMAIN items : ItemQueryFound(items[key], Lower(search_var))}
                  ELSE DOMAIN items

\* C10 amended: the query is first stripped of surrounding whitespace; when
\* the stripped query is non-empty, apply keeps a record iff the lower-cased
\* stripped query is a substring of its lower-cased name, type or alignment or
\* of one of its lower-cased tags; when it is empty, apply removes nothing.
\* The item editor does not strip the query and looks into name, type,
\* description, tags and notes.
C10_SearchByStrippedQuery ==
    /\ (Returned /\ filter_criteria = <<>>) => KeptBySearch(Lower(Strip(search_var)))
    /\ (ItemSearched /\ ~call.raised)
           => Range(call.rows) =
                  IF search_var # <<>>
                  THEN {key \in DOMAIN items :
                           \/ ItemQueryFound(items[key], Lower(search_var))
                           \/ ItemNoteFound(items[key], Lower(search_var))}
                  ELSE DOMAIN items

C10_Witness ==
    /\ Returned /\ filter_criteria = <<>> /\ search_var = <<"A", " ">>
    /\ \E a \in Range(call.filtered) :
           /\ \A f \in {"name", "type", "alignment"} :
                  ~IsSubstring(<<"a">>, Lower(PyStr(Get(heap[a], f, EmptyStr))))
           /\ heap[a]["tags"].t = "list"
           /\ \E i \in 1..Len(heap[a]["tags"].v) : IsSubstring(<<"a">>, Lower(heap[a]["tags"].v[i]))
    /\ \E a \in Range(call.input) : a \notin Range(call.filtered)

-----------------------------------------------------------------------------
(* Monster files: sanitize_filename, load_monsters, save_monster *)

\* sanitize_filename(name)
SanitizeFilename(name) ==
    LET kept == SelectIdx(name, {i \in 1..Len(name) :
                                    IsWord(name[i]) \/ IsSpace(name[i]) \/ name[i] = "-"})
        dashed == [i \in 1..Len(kept) |-> IF IsSpace(kept[i]) THEN "-" ELSE kept[i]]
        \* a run of white space becomes one "-"
        first == {i \in 1..Len(kept) : ~IsSpace(kept[i]) \/ i = 1 \/ ~IsSpace(kept[i - 1])}
    IN  Lower(SelectIdx(dashed, first))

JsonSuffix == <<".", "j", "s", "o", "n">>

\* the orders in which MONSTER_DIR.glob("*.json") may yield the files
GlobOrders(fls) == {o \in [1..Cardinality(DOMAIN fls) -> DOMAIN fls] : Range(o) = DOMAIN fls}

\* load_monsters() when glob yields the files in the order `order`
LoadMonsters(fls, order) ==
    [i \in 1..Len(order) |-> [fls[order[i]] EXCEPT !["filename"] = VStr(order[i] \o JsonSuffix)]]

RECURSIVE MaxId(_, _, _)
\* the loop of save_monster over self.monsters_data: [ok, v]; ok = FALSE is TypeError
MaxId(h, monsters, max_id) ==
    IF monsters = <<>> THEN [ok |-> TRUE, v |-> max_id]
    ELSE LET x == Get(h[Head(monsters)], "id", VInt(0))
         IN  IF ~IsNum(x) THEN [ok |-> FALSE, v |-> None]
             ELSE MaxId(h, Tail(monsters), IF NumLeq(x, max_id) THEN max_id ELSE x)

\* x + 1 on a number
PlusOne(x) ==
    IF x.t = "int" THEN VInt(x.v + 1) ELSE IF x.t = "float" THEN VFloat(x.v + 4) ELSE x

\* a clean_data that keeps the filename
CleanData_KeepsFilename(d) ==
    IF Has(d, "tags") /\ Falsy(d["tags"]) THEN [d EXCEPT !["tags"] = Missing] ELSE d

\* clean_data of save_monster: no filename, no empty tags
CleanData(d) ==
    LET c == [d EXCEPT !["filename"] = Missing]
    IN  IF Has(c, "tags") /\ Falsy(c["tags"]) THEN [c EXCEPT !["tags"] = Missing] ELSE c

\* the directory after json.dump(data) into stem.json
WriteFile(fls, stem, data) ==
    [s \in DOMAIN fls \cup {stem} |-> IF s = stem THEN data ELSE fls[s]]

\* save_monster(monster_data) for the dict at address a: [heap, files, written, stem].
\* monsters is self.monsters_data, locked the stems that cannot be opened for
\* writing; an exception is caught and reported, written = FALSE.
SaveMonster(h, fls, monsters, locked, a) ==
    LET top == MaxId(h, monsters, VInt(0))
        h1 == IF Has(h[a], "id") THEN h ELSE [h EXCEPT ![a]["id"] = PlusOne(top.v)]
        name == h1[a]["name"]
        stem == SanitizeFilename(name.v)
    IN  IF ~Has(h[a], "id") /\ ~top.ok
        THEN [heap |-> h, files |-> fls, written |-> FALSE, stem |-> <<>>]
        ELSE IF name.t # "str" \/ stem \in locked
        THEN [heap |-> h1, files |-> fls, written |-> FALSE, stem |-> <<>>]
        ELSE [heap |-> h1, files |-> WriteFile(fls, stem, CleanData(h1[a])), written |-> TRUE,
              stem |-> stem]

\* ', '.join(monster.get('tags', [])) returns for every row of the tree
TagsJoin(h, filtered) ==
    \A i \in 1..Len(filtered) : Get(h[filtered[i]], "tags", VList(<<>>)).t \in {"list", "str"}

\* refresh_monster_list(): its outcomes [heap, monsters_data, filtered, raised],
\* one for each order of the glob.  The dicts loaded are new objects, placed
\* behind those of h.
RefreshMonsterList(h, fls, text, fc, column, reverse) ==
    UNION { { [heap |-> h2, monsters_data |-> r.monsters, filtered |-> r.filtered,
               raised |-> r.raised \/ ~TagsJoin(h2, r.filtered)] :
              r \in {ApplyFiltersAndSort(h2, [i \in 1..(Len(h2) - Len(h)) |-> Len(h) + i],
                                         text, fc, column, reverse)} } :
            h2 \in {h \o LoadMonsters(fls, order) : order \in GlobOrders(fls)} }

-----------------------------------------------------------------------------
(* MonsterManagerGUI.apply_bulk_changes *)

\* [tag.strip() for tag in value.split(',') if tag.strip()]
NewTags(value) ==
    LET parts == Split(value, ",")
        stripped == [i \in 1..Len(parts) |-> Strip(parts[i])]
    IN  SelectIdx(stripped, {i \in 1..Len(parts) : stripped[i] # <<>>})

\* list(set(...)): the elements once each, in an order the code does not fix
Orderings(S) == {o \in [1..Cardinality(S) -> S] : Range(o) = S}

\* a tag merge that appends the new tags without removing duplicates
MergeTags_Appends(existing_tags, new_tags) == {existing_tags \o new_tags}

\* list(set(existing_tags + new_tags)): the lists it may produce
MergeTags(existing_tags, new_tags) == Orderings(Range(existing_tags) \cup Range(new_tags))

\* a test that takes the empty string for a value
HasValue_EmptyCounts(value) == value # None

\* value is not None and value != ''
HasValue(value) == value # None /\ value # EmptyStr

\* one pass of the loop over changes.items() on the dict d: the outcomes
\* [d, modified, raised] it may have; raised is the TypeError of list + non-list
ChangeField(d, field, value) ==
    IF ~HasValue(value) THEN {[d |-> d, modified |-> FALSE, raised |-> FALSE]}
    ELSE IF field = "tags" /\ value.t = "str"
    THEN LET existing_tags == Get(d, "tags", VList(<<>>))
         IN  IF existing_tags.t # "list"
             THEN {[d |-> d, modified |-> FALSE, raised |-> TRUE]}
             ELSE {[d |-> IF all_tags = <<>> THEN d ELSE [d EXCEPT !["tags"] = VList(all_tags)],
                    modified |-> TRUE, raised |-> FALSE] :
                   all_tags \in MergeTags(existing_tags.v, NewTags(value.v))}
    ELSE {[d |-> [d EXCEPT ![field] = value], modified |-> TRUE, raised |-> FALSE]}

RECURSIVE ChangeFields(_, _)
\* the loop over changes.items() from the state st = [d, modified, raised]
ChangeFields(st, changes) ==
    IF changes = <<>> \/ st.raised THEN {st}
    ELSE UNION { ChangeFields(next, Tail(changes)) :
                 next \in { [d |-> one.d, modified |-> st.modified \/ one.modified,
                             raised |-> one.raised] :
                            one \in ChangeField(st.d, Head(changes)[1], Head(changes)[2]) } }

\* a loop body that counts a record only when one of its values is new
AfterFields_CountsChanged(st, a, one, monsters, locked) ==
    LET h1 == [st.heap EXCEPT ![a] = one.d]
        s == SaveMonster(h1, st.files, monsters, locked, a)
    IN  IF one.raised THEN [st EXCEPT !.heap = h1, !.raised = TRUE]
        ELSE IF ~one.modified \/ one.d = st.heap[a] THEN st
        ELSE [heap |-> s.heap, files |-> s.files, count |-> st.count + 1, raised |-> FALSE,
              saves |-> Append(st.saves, [monster |-> a, written |-> s.written,
                                          stem |-> s.stem])]

\* a loop body that forgets to save the record
AfterFields_NoSave(st, a, one, monsters, locked) ==
    LET h1 == [st.heap EXCEPT ![a] = one.d]
    IN  IF one.raised THEN [st EXCEPT !.heap = h1, !.raised = TRUE]
        ELSE IF ~one.modified THEN st
        ELSE [st EXCEPT !.heap = h1, !.count = st.count + 1]

\* the rest of the loop body for the dict at address a, once its fields are set
AfterFields(st, a, one, monsters, locked) ==
    LET h1 == [st.heap EXCEPT ![a] = one.d]
        s == SaveMonster(h1, st.files, monsters, locked, a)
    IN  IF one.raised THEN [st EXCEPT !.heap = h1, !.raised = TRUE]
        ELSE IF ~one.modified THEN st
        ELSE [heap |-> s.heap, files |-> s.files, count |-> st.count + 1, raised |-> FALSE,
              saves |-> Append(st.saves, [monster |-> a, written |-> s.written,
                                          stem |-> s.stem])]

RECURSIVE BulkLoop(_, _, _, _, _)
\* the loop over self.selected_monsters from st = [heap, files, count, raised, saves]
BulkLoop(st, selected, changes, monsters, locked) ==
    IF selected = <<>> \/ st.raised THEN {st}
    ELSE UNION { BulkLoop(next, Tail(selected), changes, monsters, locked) :
                 next \in { AfterFields(st, Head(selected), one, monsters, locked) :
                            one \in ChangeFields([d |-> st.heap[Head(selected)],
                                                  modified |-> FALSE, raised |-> FALSE],
                                                 changes) } }

\* BulkEditDialog.apply_changes on the texts of its entries: [ok, changes];
\* ok = FALSE is the error box of an invalid number, the dialog stays open
DialogFields == <<"challenge_rating", "type", "size", "armor_class", "hit_points",
                  "alignment", "tags">>

DialogValue(field_name, text) ==
    LET value == Strip(text)
    IN  IF field_name = "challenge_rating" THEN ParseFloat(value)
        ELSE IF field_name \in {"armor_class", "hit_points"} THEN ParseInt(value)
        ELSE [ok |-> TRUE, v |-> VStr(value)]

DialogChanges(texts) ==
    LET filled == {i \in 1..Len(DialogFields) : Strip(texts[DialogFields[i]]) # <<>>}
        all == [i \in 1..Len(DialogFields) |->
                   <<DialogFields[i], DialogValue(DialogFields[i], texts[DialogFields[i]]).v>>]
    IN  [ok |-> \A i \in filled : DialogValue(DialogFields[i], texts[DialogFields[i]]).ok,
         changes |-> SelectIdx(all, filled)]

-----------------------------------------------------------------------------
(* The Monster Manager with a bounded monster directory *)

MaxFiles == 2

BulkFiles ==
    (<<"a", "b">> :> [EmptyDict EXCEPT !["name"] = VStr(<<"A", "b">>), !["id"] = VInt(1),
                          !["challenge_rating"] = VFloat(4), !["type"] = VStr(<<"D", "r">>),
                          !["tags"] = VList(<< <<"f", "i">>, <<"f", "l">> >>)])
    @@ (<<"b">> :> [EmptyDict EXCEPT !["name"] = VStr(<<"B">>), !["id"] = VInt(2),
                          !["challenge_rating"] = VInt(0), !["type"] = VStr(<<"l", "i">>)])
    @@ (<<"c", "-", "d">> :> [EmptyDict EXCEPT !["name"] = VStr(<<"C", " ", "d">>),
                          !["challenge_rating"] = VInt(1), !["type"] = VStr(<<"D", "r">>),
                          !["tags"] = VList(<< <<"i", "c">> >>)])
    @@ (<<"e">> :> [EmptyDict EXCEPT !["id"] = VInt(5), !["type"] = VStr(<<"D", "r">>),
                          !["tags"] = VStr(<<"f", "i">>)])
    @@ (<<"f">> :> [EmptyDict EXCEPT !["name"] = VStr(<<"F">>), !["id"] = VInt(3),
                          !["challenge_rating"] = VInt(2), !["type"] = VStr(<<"l", "i">>),
                          !["tags"] = VList(<<>>)])

\* the directories of at most MaxFiles files
BulkDirectories ==
    { [s \in S |-> BulkFiles[s]] : S \in {T \in SUBSET DOMAIN BulkFiles : Cardinality(T) <= MaxFiles} }

BulkSearchTexts == { <<>>, <<"d", "r">> }

\* the arguments of apply_bulk_changes: lists of <<field, value>> in dict order
BulkChangeLists ==
    { <<>>,
      << <<"type", EmptyStr>> >>,
      << <<"type", None>>, <<"tags", EmptyStr>> >>,
      << <<"type", VStr(<<"D", "r">>)>> >>,
      << <<"type", VStr(<<"l", "i">>)>>, <<"tags", EmptyStr>> >>,
      << <<"tags", VStr(<<"f", "i", ",", " ", "i", "c">>)>> >>,
      << <<"tags", VStr(<<" ", ",">>)>> >>,
      << <<"type", EmptyStr>>, <<"tags", VStr(<<"f", "i">>)>> >>,
      << <<"challenge_rating", VFloat(4)>>, <<"armor_class", VInt(0)>> >>,
      << <<"tags", VList(<< <<"z">> >>)>> >>,
      << <<"id", None>>, <<"type", VStr(<<"l", "i">>)>> >> }

NoTexts == [f \in Range(DialogFields) |-> <<>>]

\* the texts typed into the bulk edit dialog
DialogTexts ==
    { NoTexts,
      [NoTexts EXCEPT !["type"] = <<" ">>],
      [NoTexts EXCEPT !["type"] = <<"D", "r">>],
      [NoTexts EXCEPT !["challenge_rating"] = <<"1">>, !["tags"] = <<"f", "i", ",", "i", "c">>],
      [NoTexts EXCEPT !["armor_class"] = <<"x">>, !["type"] = <<"l", "i">>],
      [NoTexts EXCEPT !["armor_class"] = <<"0">>] }

RECURSIVE Dedup(_)
\* the elements of s once each, in the order of their first occurrence
Dedup(s) ==
    IF s = <<>> THEN <<>>
    ELSE LET front == Dedup(SubSeq(s, 1, Len(s) - 1))
         IN  IF s[Len(s)] \in Range(front) THEN front ELSE Append(front, s[Len(s)])

\* the dicts still referenced by self.monsters_data or self.selected_monsters,
\* the others are garbage: [heap, monsters_data, selected_monsters]
Collected(h, data, selected) ==
    LET roots == Dedup(data \o selected)
        at(a) == CHOOSE i \in 1..Len(roots) : roots[i] = a
    IN  [heap |-> [i \in 1..Len(roots) |-> h[roots[i]]],
         monsters_data |-> [i \in 1..Len(data) |-> at(data[i])],
         selected_monsters |-> [i \in 1..Len(selected) |-> at(selected[i])]]

\* the rows of the tree: what the last refresh_monster_list displayed
Displayed ==
    ApplyFiltersAndSort(heap, monsters_data, search_var, filter_criteria, sort_column,
                        sort_reverse).filtered

\* MonsterManagerGUI.__init__: the window opens only when the first refresh returns
InitBulk ==
    /\ files \in BulkDirectories
    /\ unwritable \in { {}, {<<"a", "b">>} }
    /\ search_var = <<>>
    /\ filter_criteria = <<>>
    /\ sort_column = "challenge_rating"
    /\ sort_reverse = FALSE
    /\ selected_monsters = <<>>
    /\ current_item_key = NoKey
    /\ images = NoImages
    /\ field_widgets = NoWidgets
    /\ \E r \in RefreshMonsterList(<<>>, files, search_var, filter_criteria, sort_column,
                                    sort_reverse) :
           /\ ~r.raised
           /\ heap = r.heap
           /\ monsters_data = r.monsters_data
    /\ items = NoItems
    /\ pc = "ready"
    /\ call = NoCall

\* the state after refresh_monster_list(), garbage dropped
Refreshed(selected, text) ==
    \E r \in RefreshMonsterList(heap, files, text, filter_criteria, sort_column, sort_reverse) :
        \E c \in {Collected(r.heap, r.monsters_data, selected)} :
            /\ heap' = c.heap
            /\ monsters_data' = c.monsters_data
            /\ selected_monsters' = c.selected_monsters

\* on_search_change: the trace of search_var after the user typed `text`
OnSearchChange(text) ==
    /\ pc = "ready"
    /\ text # search_var
    /\ search_var' = text
    /\ Refreshed(selected_monsters, text)
    /\ UNCHANGED <<files, unwritable, filter_criteria, sort_column, sort_reverse, items, pc,
                   call, current_item_key, images, field_widgets>>

\* a select_all that takes every loaded monster, shown or not
SelectAll_Everything ==
    /\ pc = "ready"
    /\ ~ApplyFiltersAndSort(heap, monsters_data, search_var, filter_criteria, sort_column,
                            sort_reverse).raised
    /\ Refreshed(monsters_data, search_var)
    /\ UNCHANGED <<files, unwritable, search_var, filter_criteria, sort_column, sort_reverse,
                   items, pc, call, current_item_key, images, field_widgets>>

\* select_all
SelectAll ==
    /\ pc = "ready"
    /\ \E r \in {ApplyFiltersAndSort(heap, monsters_data, search_var, filter_criteria,
                                      sort_column, sort_reverse)} :
           /\ ~r.raised
           /\ Refreshed(r.filtered, search_var)
    /\ UNCHANGED <<files, unwritable, search_var, filter_criteria, sort_column, sort_reverse,
                   items, pc, call, current_item_key, images, field_widgets>>

\* next((m for m in self.monsters_data if m.get('name') == monster_name), None)
FirstNamed(monster_name) ==
    LET found == {i \in 1..Len(monsters_data) :
                     PyEq(Get(heap[monsters_data[i]], "name", None), monster_name)}
    IN  IF found = {} THEN <<>>
        ELSE <<monsters_data[CHOOSE i \in found : \A j \in found : i <= j]>>

\* on_monster_select when the rows `rows` of the tree are selected
OnMonsterSelect(rows) ==
    /\ pc = "ready"
    /\ \E shown \in {Displayed} :
           /\ rows \subseteq 1..Len(shown)
           /\ \E picked \in {SelectIdx(shown, rows)} :
              \E c \in {Collected(heap, monsters_data,
                                  Flatten([i \in 1..Len(picked) |->
                                              FirstNamed(Get(heap[picked[i]], "name", EmptyStr))]))} :
                  /\ heap' = c.heap
                  /\ monsters_data' = c.monsters_data
                  /\ selected_monsters' = c.selected_monsters
    /\ UNCHANGED <<files, unwritable, search_var, filter_criteria, sort_column, sort_reverse,
                   items, pc, call, current_item_key, images, field_widgets>>

\* apply_bulk_changes(changes), the refresh at its end included
ApplyBulkChanges(changes) ==
    /\ \E end \in BulkLoop([heap |-> heap, files |-> files, count |-> 0, raised |-> FALSE,
                            saves |-> <<>>],
                           selected_monsters, changes, monsters_data, unwritable) :
           /\ files' = end.files
           /\ IF end.raised
              THEN /\ heap' = end.heap
                   /\ monsters_data' = monsters_data
                   /\ call' = [op |-> "bulk", changes |-> changes, heap |-> heap,
                               files |-> files, monsters_data |-> monsters_data,
                               count |-> end.count, raised |-> TRUE, saves |-> end.saves,
                               reported |-> FALSE, refreshed |-> FALSE]
              ELSE \E r \in RefreshMonsterList(end.heap, end.files, search_var,
                                                filter_criteria, sort_column, sort_reverse) :
                       /\ heap' = r.heap
                       /\ monsters_data' = r.monsters_data
                       /\ call' = [op |-> "bulk", changes |-> changes, heap |-> heap,
                                   files |-> files, monsters_data |-> monsters_data,
                                   count |-> end.count, raised |-> FALSE,
                                   saves |-> end.saves, reported |-> TRUE,
                                   refreshed |-> ~r.raised]
    /\ pc' = "done"
    /\ UNCHANGED <<selected_monsters, unwritable, search_var, filter_criteria,
                   sort_column, sort_reverse, items, current_item_key, images, field_widgets>>

\* a direct call of apply_bulk_changes
CallApplyBulkChanges ==
    /\ pc = "ready"
    /\ \E changes \in BulkChangeLists : ApplyBulkChanges(changes)

\* bulk_edit_dialog: "Apply Changes" pressed on the texts typed.  An invalid
\* number is reported and the dialog stays open (op "invalid"); texts that give
\* no change close it with nothing to apply (op "dialog").
BulkEditDialog ==
    /\ pc = "ready"
    /\ selected_monsters # <<>>
    /\ \E texts \in DialogTexts :
           \E result \in {DialogChanges(texts)} :
               /\ IF result.ok /\ result.changes # <<>>
                  THEN ApplyBulkChanges(result.changes)
                  ELSE /\ pc' = "done"
                       /\ call' = [op |-> IF result.ok THEN "dialog" ELSE "invalid",
                                   changes |-> result.changes, heap |-> heap,
                                   files |-> files, monsters_data |-> monsters_data,
                                   count |-> 0, raised |-> FALSE, saves |-> <<>>,
                                   reported |-> FALSE, refreshed |-> FALSE]
                       /\ UNCHANGED <<heap, monsters_data, selected_monsters,
                                      files, unwritable, search_var, filter_criteria,
                                      sort_column, sort_reverse, items, current_item_key,
                                      images, field_widgets>>

\* export_selection with a file name given: export_data is what json.dump is
\* handed; written = FALSE is open() failing, caught and reported
ExportSelection ==
    /\ pc = "ready"
    /\ selected_monsters # <<>>
    /\ \E written \in BOOLEAN :
           call' = [op |-> "export", written |-> written,
                    export_data |-> [i \in 1..Len(selected_monsters) |->
                                        [heap[selected_monsters[i]] EXCEPT !["filename"] = Missing]]]
    /\ pc' = "done"
    /\ UNCHANGED <<heap, monsters_data, selected_monsters, files, unwritable,
                   search_var, filter_criteria, sort_column, sort_reverse, items,
                   current_item_key, images, field_widgets>>

-----------------------------------------------------------------------------
(* AdvancedItemEditor.bulk_edit_dialog (src/tools/advanced_item_editor.py) *)

\* the fields the dialog offers, in the order of sorted(all_fields)
BulkFieldOrder == <<"description", "name", "price", "stack", "type", "weight">>

CopperPerGold == 100

\* gp_to_cp(gp_value) for a float: [ok, v]; ok = FALSE is the OverflowError of int(inf)
GpToCp(gp_value) ==
    IF gp_value.t = "inf" THEN [ok |-> FALSE, v |-> None]
    ELSE [ok |-> TRUE, v |-> VInt(Trunc(gp_value.v * CopperPerGold))]

\* a conversion that leaves the field alone when the text is empty
BulkEditValue_EmptyKeeps(field, text) ==
    LET new_value == Strip(text)
    IN  IF new_value = <<>> THEN [kind |-> "skip", v |-> None]
        ELSE IF field = "price"
        THEN IF ~ParseFloat(new_value).ok THEN [kind |-> "skip", v |-> None]
             ELSE IF ~GpToCp(ParseFloat(new_value).v).ok THEN [kind |-> "raise", v |-> None]
             ELSE [kind |-> "set", v |-> GpToCp(ParseFloat(new_value).v).v]
        ELSE IF field = "weight"
        THEN IF ParseFloat(new_value).ok THEN [kind |-> "set", v |-> ParseFloat(new_value).v]
             ELSE [kind |-> "skip", v |-> None]
        ELSE IF field = "stack"
        THEN IF ParseInt(new_value).ok THEN [kind |-> "set", v |-> ParseInt(new_value).v]
             ELSE [kind |-> "skip", v |-> None]
        ELSE [kind |-> "set", v |-> VStr(new_value)]

\* a conversion that stores the text when it does not read as a number
BulkEditValue_InvalidSetsText(field, text) ==
    LET new_value == Strip(text)
    IN  IF field = "price" /\ new_value # <<>>
        THEN IF ~ParseFloat(new_value).ok THEN [kind |-> "set", v |-> VStr(new_value)]
             ELSE IF ~GpToCp(ParseFloat(new_value).v).ok THEN [kind |-> "raise", v |-> None]
             ELSE [kind |-> "set", v |-> GpToCp(ParseFloat(new_value).v).v]
        ELSE IF field = "weight" /\ new_value # <<>>
        THEN IF ParseFloat(new_value).ok THEN [kind |-> "set", v |-> ParseFloat(new_value).v]
             ELSE [kind |-> "set", v |-> VStr(new_value)]
        ELSE IF field = "stack" /\ new_value # <<>>
        THEN IF ParseInt(new_value).ok THEN [kind |-> "set", v |-> ParseInt(new_value).v]
             ELSE [kind |-> "set", v |-> VStr(new_value)]
        ELSE IF Lower(new_value) \in {<<"n", "o", "n", "e">>, <<"n", "u", "l", "l">>, <<>>}
        THEN [kind |-> "set", v |-> None]
        ELSE [kind |-> "set", v |-> VStr(new_value)]

\* what one checked field does to every selected item: [kind, v] with kind
\* "set" (the field becomes v), "skip" (ValueError, continue) or "raise"
BulkEditValue(field, text) ==
    LET new_value == Strip(text)
    IN  IF field = "price" /\ new_value # <<>>
        THEN IF ~ParseFloat(new_value).ok THEN [kind |-> "skip", v |-> None]
             ELSE IF ~GpToCp(ParseFloat(new_value).v).ok THEN [kind |-> "raise", v |-> None]
             ELSE [kind |-> "set", v |-> GpToCp(ParseFloat(new_value).v).v]
        ELSE IF field = "weight" /\ new_value # <<>>
        THEN IF ParseFloat(new_value).ok THEN [kind |-> "set", v |-> ParseFloat(new_value).v]
             ELSE [kind |-> "skip", v |-> None]
        ELSE IF field = "stack" /\ new_value # <<>>
        THEN IF ParseInt(new_value).ok THEN [kind |-> "set", v |-> ParseInt(new_value).v]
             ELSE [kind |-> "skip", v |-> None]
        ELSE IF Lower(new_value) \in {<<"n", "o", "n", "e">>, <<"n", "u", "l", "l">>, <<>>}
        THEN [kind |-> "set", v |-> None]
        ELSE [kind |-> "set", v |-> VStr(new_value)]

RECURSIVE ApplyBulkEdit(_, _, _)
\* apply_bulk_edit from st = [items, changes_made, raised]: `checked` lists the
\* checked fields with the text of their widgets, as <<field, text>>
ApplyBulkEdit(st, selected_keys, checked) ==
    IF checked = <<>> \/ st.raised THEN st
    ELSE LET field == Head(checked)[1]
             one == BulkEditValue(field, Head(checked)[2])
             edited == [key \in DOMAIN st.items |->
                           IF key \in Range(selected_keys) /\ one.kind = "set"
                           THEN [st.items[key] EXCEPT ![field] = one.v]
                           ELSE st.items[key]]
         IN  IF one.kind = "raise" THEN [st EXCEPT !.raised = TRUE]
             ELSE ApplyBulkEdit([items |-> edited, changes_made |-> st.changes_made + 1,
                                 raised |-> FALSE], selected_keys, Tail(checked))

EditTexts == { <<>>, <<"N", "o", "n", "e">>, <<"1", ".", "5">>, <<"2", " ">>, <<"W", "e">>,
               <<"i", "n", "f">> }

\* the checked fields of the dialog over the selected items: at most two of the
\* fields the items have, each with a text
CheckedLists(its, selected_keys) ==
    LET offered == {i \in 1..Len(BulkFieldOrder) :
                       \E key \in Range(selected_keys) : Has(its[key], BulkFieldOrder[i])}
    IN  {<<>>}
        \cup { << <<BulkFieldOrder[i], t>> >> : i \in offered, t \in EditTexts }
        \cup { << <<BulkFieldOrder[p[1]], t>>, <<BulkFieldOrder[p[2]], <<>> >> >> :
               p \in {q \in offered \X offered : q[1] < q[2]}, t \in EditTexts }

\* "Apply Changes" of the bulk edit dialog opened on the selected rows
ApplyBulkEditClicked ==
    /\ pc = "items"
    /\ \E rows \in SUBSET (1..Cardinality(DOMAIN items)) :
       \E shown \in {RefreshItemList(items, search_var)} :
       \E selected_keys \in {SelectIdx(shown.rows, rows)} :
       \E checked \in CheckedLists(items, selected_keys) :
       \E end \in {ApplyBulkEdit([items |-> items, changes_made |-> 0, raised |-> FALSE],
                                 selected_keys, checked)} :
               /\ selected_keys # <<>>
               /\ items' = end.items
               /\ call' = [op |-> "item_bulk", checked |-> checked,
                           selected_keys |-> selected_keys, items |-> items,
                           changes_made |-> end.changes_made, raised |-> end.raised,
                           saves |-> <<>>,      \* apply_bulk_edit calls no save_item
                           reported |-> ~end.raised /\ end.changes_made > 0
                                        /\ ~RefreshItemList(end.items, search_var).raised]
    /\ pc' = "done"
    /\ UNCHANGED <<heap, monsters_data, selected_monsters, files, unwritable,
                   search_var, filter_criteria, sort_column, sort_reverse, current_item_key,
                   images, field_widgets>>

NextBulk ==
    \/ \E text \in BulkSearchTexts : OnSearchChange(text)
    \/ SelectAll
    \/ \E rows \in SUBSET (1..Len(monsters_data)) : OnMonsterSelect(rows)
    \/ CallApplyBulkChanges
    \/ BulkEditDialog
    \/ ExportSelection
    \/ ApplyBulkEditClicked

InitBulkEdits == InitBulk \/ InitItems

SpecBulk == InitBulkEdits /\ [][NextBulk]_vars

BulkApplied == pc = "done" /\ call.op = "bulk"
ItemsEdited == pc = "done" /\ call.op = "item_bulk"
Exported == pc = "done" /\ call.op = "export"

-----------------------------------------------------------------------------
(* Claims about the bulk edits, under SpecBulk *)

\* the value the changes give to the field, Missing when they do not name it
ChangeOf(changes, field) ==
    IF \E i \in 1..Len(changes) : changes[i][1] = field
    THEN changes[CHOOSE i \in 1..Len(changes) : changes[i][1] = field][2]
    ELSE Missing

\* the non-empty trimmed tokens of a comma-separated text
Tokens(text) == {Strip(Split(text, ",")[i]) : i \in 1..Len(Split(text, ","))} \ {<<>>}

\* the tags of a record before and after the call
TagsBefore(a) == Get(call.heap[a], "tags", VList(<<>>))
TagsAfter(a) == Get(heap[a], "tags", VList(<<>>))

\* every selected record keeps its tags in a list, or has none
TagLists == \A a \in Range(selected_monsters) : TagsBefore(a).t = "list"

\* the call gives a non-empty text to tags
TagsText == ChangeOf(call.changes, "tags").t = "str" /\ ChangeOf(call.changes, "tags") # EmptyStr

\* the places of the selection whose record is not as it was before the call
ChangedPlaces ==
    {i \in 1..Len(selected_monsters) : heap[selected_monsters[i]] # call.heap[selected_monsters[i]]}

\* the selected items that are not as they were before the call
ChangedItems == {key \in Range(call.selected_keys) : items[key] # call.items[key]}

\* C6: when apply_bulk_changes is given a comma-separated text for tags and the
\* selected records keep their tags in lists, the call returns and the tags of
\* every selected record are then exactly its former tags and the non-empty
\* trimmed tokens of the text, each once; a record with neither keeps what it had.
C6_TagsAreUnion ==
    (BulkApplied /\ TagsText /\ TagLists)
        => /\ ~call.raised
           /\ \A a \in Range(selected_monsters) :
                  LET all == Range(TagsBefore(a).v) \cup Tokens(ChangeOf(call.changes, "tags").v)
                  IN  IF all = {} THEN heap[a]["tags"] = call.heap[a]["tags"]
                      ELSE /\ heap[a]["tags"].t = "list"
                           /\ Range(heap[a]["tags"].v) = all
                           /\ Len(heap[a]["tags"].v) = Cardinality(all)

C6_Witness ==
    /\ BulkApplied /\ TagsText /\ TagLists
    /\ Tokens(ChangeOf(call.changes, "tags").v) = {<<"f", "i">>, <<"i", "c">>}
    /\ \E a \in Range(selected_monsters) :
           /\ TagsBefore(a).v = << <<"f", "i">>, <<"f", "l">> >>
           /\ Range(TagsAfter(a).v) = {<<"f", "i">>, <<"f", "l">>, <<"i", "c">>}
    /\ \E a \in Range(selected_monsters) : ~Has(call.heap[a], "tags") /\ Len(TagsAfter(a).v) = 2

\* C7: apply_bulk_changes with every value empty ('' or None) reports the count
\* 0, leaves every selected record as it was and writes no file; a bulk edit
\* dialog closed with every entry blank changes nothing either.
C7_EmptyChangesNothing ==
    /\ (BulkApplied /\ \A i \in 1..Len(call.changes) : call.changes[i][2] \in {None, EmptyStr})
           => /\ ~call.raised /\ call.reported /\ call.count = 0
              /\ \A a \in Range(selected_monsters) : heap[a] = call.heap[a]
              /\ files = call.files
    /\ (pc = "done" /\ call.op = "dialog")
           => /\ call.count = 0
              /\ \A a \in Range(selected_monsters) : heap[a] = call.heap[a]
              /\ files = call.files

C7_Witness ==
    /\ BulkApplied
    /\ Len(call.changes) = 2
    /\ \A i \in 1..Len(call.changes) : call.changes[i][2] \in {None, EmptyStr}
    /\ Len(selected_monsters) = 2
    /\ call.count = 0

\* C8 as stated: the count is the number of selected records in which a field
\* changed (monsters), the number reported is the number of items changed (items).
C8_CountsChangedRecords ==
    /\ (BulkApplied /\ call.reported) => call.count = Cardinality(ChangedPlaces)
    /\ (ItemsEdited /\ call.reported) => call.changes_made = Cardinality(ChangedItems)

\* C8: the count apply_bulk_changes reports is the number of selected records
\* when some value of the changes is not empty and 0 otherwise, whether or not
\* a value differs from the old one; the item editor reports the number of
\* checked fields.
C8_CountsVisitedRecords ==
    /\ (BulkApplied /\ call.reported)
           => call.count = IF \E i \in 1..Len(call.changes) :
                                   call.changes[i][2] \notin {None, EmptyStr}
                            THEN Len(selected_monsters) ELSE 0
    /\ (ItemsEdited /\ call.reported) => call.changes_made = Len(call.checked)

C8_Witness ==
    /\ BulkApplied /\ call.reported
    /\ call.count = 2
    /\ Cardinality(ChangedPlaces) = 1
    /\ Len(call.changes) = 1

\* the text of a checked field, trimmed
Typed(checked, j) == Strip(checked[j][2])

NullWords == {<<>>, <<"n", "o", "n", "e">>, <<"n", "u", "l", "l">>}

NumericItemFields == {"price", "weight", "stack"}

\* C9 as stated: a non-tags field with a non-empty value holds that value
\* afterwards, a field with an empty value is left as it was (both tools).
C9_ReplaceOrKeep ==
    /\ (BulkApplied /\ ~call.raised)
           => \A a \in Range(selected_monsters) : \A i \in 1..Len(call.changes) :
                  LET field == call.changes[i][1]
                      value == call.changes[i][2]
                  IN  IF value \in {None, EmptyStr} THEN heap[a][field] = call.heap[a][field]
                      ELSE field # "tags" => heap[a][field] = value
    /\ (ItemsEdited /\ ~call.raised)
           => \A key \in Range(call.selected_keys) : \A j \in 1..Len(call.checked) :
                  LET field == call.checked[j][1]
                  IN  IF Typed(call.checked, j) = <<>>
                      THEN items[key][field] = call.items[key][field]
                      ELSE field \notin NumericItemFields
                               => items[key][field] = VStr(Typed(call.checked, j))

\* C9: when apply_bulk_changes returns, a non-tags field with a non-empty value
\* holds that value in every selected record and a field with an empty value is
\* as it was, except that id is set in a record that had none; the item editor
\* sets a checked field to null when its text is empty, "none" or "null", to the
\* text otherwise, and for price, weight and stack to the number the text
\* reads as (price in copper pieces), leaving the field alone when it reads as none.
C9_ReplaceOrKeepPerTool ==
    /\ (BulkApplied /\ ~call.raised)
           => \A a \in Range(selected_monsters) : \A i \in 1..Len(call.changes) :
                  LET field == call.changes[i][1]
                      value == call.changes[i][2]
                  IN  IF value \in {None, EmptyStr}
                      THEN \/ heap[a][field] = call.heap[a][field]
                           \/ field = "id" /\ ~Has(call.heap[a], "id")
                      ELSE field # "tags" => heap[a][field] = value
    /\ (ItemsEdited /\ ~call.raised)
           => \A key \in Range(call.selected_keys) : \A j \in 1..Len(call.checked) :
                  LET field == call.checked[j][1]
                      text == Typed(call.checked, j)
                      after == items[key][field]
                  IN  IF text = <<>> \/ (field \notin NumericItemFields /\ Lower(text) \in NullWords)
                      THEN after = None
                      ELSE IF field \notin NumericItemFields THEN after = VStr(text)
                      ELSE IF field = "stack"
                      THEN after = IF ParseInt(text).ok THEN ParseInt(text).v
                                   ELSE call.items[key][field]
                      ELSE IF ~ParseFloat(text).ok THEN after = call.items[key][field]
                      ELSE IF field = "weight" THEN after = ParseFloat(text).v
                      ELSE after = VInt((ParseFloat(text).v.v * CopperPerGold) \div 4)

C9_Witness ==
    /\ BulkApplied /\ ~call.raised
    /\ Len(call.changes) = 2
    /\ \E a \in Range(selected_monsters) :
           /\ call.changes[1][2] \notin {None, EmptyStr}
           /\ call.changes[1][1] # "tags"
           /\ call.heap[a][call.changes[1][1]] # call.changes[1][2]
           /\ heap[a][call.changes[1][1]] = call.changes[1][2]
           /\ call.changes[2][2] = EmptyStr
           /\ Has(call.heap[a], call.changes[2][1])
           /\ heap[a][call.changes[2][1]] = call.heap[a][call.changes[2][1]]

-----------------------------------------------------------------------------
(* Claims about the criteria and the sort of apply_filters_and_sort, under
   SpecApply *)

\* the records of the input that the quick search leaves
SearchKept ==
    {a \in Range(call.input) :
        \/ SearchQuery(search_var) = <<>>
        \/ QueryFound(heap[a], SearchQuery(search_var))}

\* the criteria in the claims' words, on one record
ContainsFound(m, field, criteria) ==
    IsSubstring(Lower(criteria.value.v), Lower(PyStr(Get(m, field, EmptyStr))))
WithinRange(m, field, criteria) ==
    LET value == IF Has(m, field) THEN m[field] ELSE VInt(0)
    IN  IsNum(value) /\ NumLeq(criteria.min, value) /\ NumLeq(value, criteria.max)
ExactlyEqual(m, field, criteria) ==
    Has(m, field) /\ m[field] = criteria.value
Meets(m, field, criteria) ==
    CASE criteria.type = "range" -> WithinRange(m, field, criteria)
      [] criteria.type = "contains" -> ContainsFound(m, field, criteria)
      [] criteria.type = "equals" -> ExactlyEqual(m, field, criteria)
      [] OTHER -> TRUE

\* the call ran with the one criterion of the given type
OneCriterion(type) ==
    Returned /\ Len(filter_criteria) = 1 /\ filter_criteria[1][2].type = type

\* C11: a contains criterion keeps exactly the records whose stringified,
\* lower-cased field value contains the lower-cased criterion value, a missing
\* field counting as the empty string.
C11_ContainsKeeps ==
    OneCriterion("contains") =>
        Range(call.filtered) =
            {a \in SearchKept : ContainsFound(heap[a], filter_criteria[1][1], filter_criteria[1][2])}
C11_Witness ==
    /\ OneCriterion("contains") /\ Len(call.input) = 3 /\ Len(call.filtered) = 1
    /\ filter_criteria[1][2].value = VStr(<<"D", "r">>)
    /\ \E a \in Range(call.filtered) : heap[a]["type"] = VStr(<<"d", "r">>)
    /\ \E a \in SearchKept \ Range(call.filtered) : heap[a]["type"] = VStr(<<"l", "i">>)
    /\ \E a \in SearchKept \ Range(call.filtered) : ~Has(heap[a], "type")

\* C12: a range criterion keeps exactly the records with min <= value <= max,
\* a record lacking the field being compared as value 0: such a record passes
\* every range that includes 0 and is dropped by every range that excludes 0.
C12_RangeKeeps ==
    OneCriterion("range") =>
        LET field == filter_criteria[1][1]
            criteria == filter_criteria[1][2]
        IN  /\ Range(call.filtered) = {a \in SearchKept : WithinRange(heap[a], field, criteria)}
            /\ \A a \in SearchKept :
                   ~Has(heap[a], field) =>
                       (a \in Range(call.filtered)
                           <=> (NumLeq(criteria.min, VInt(0)) /\ NumLeq(VInt(0), criteria.max)))
C12_Witness ==
    /\ OneCriterion("range") /\ filter_criteria[1][1] = "challenge_rating"
    /\ ~NumLeq(filter_criteria[1][2].min, VInt(0))
    /\ \E a \in SearchKept \ Range(call.filtered) : ~Has(heap[a], "challenge_rating")
    /\ \E a \in Range(call.filtered) :
           PyEq(heap[a]["challenge_rating"], filter_criteria[1][2].min)
    /\ \E a \in SearchKept \ Range(call.filtered) : Has(heap[a], "challenge_rating")

\* C13: an equals criterion keeps exactly the records whose field value equals
\* the criterion value exactly and type-sensitively; a record lacking the field
\* is never kept by an equals criterion whose value is a non-empty string.
C13_EqualsKeeps ==
    OneCriterion("equals") =>
        LET field == filter_criteria[1][1]
            criteria == filter_criteria[1][2]
        IN  /\ Range(call.filtered) = {a \in SearchKept : ExactlyEqual(heap[a], field, criteria)}
            /\ \A a \in Range(call.filtered) : Has(heap[a], field)
C13_Witness ==
    /\ OneCriterion("equals") /\ filter_criteria[1][1] = "size"
    /\ Len(call.input) = 3 /\ Len(call.filtered) = 1
    /\ \E a \in SearchKept \ Range(call.filtered) : heap[a]["size"] = VStr(<<"l">>)
    /\ \E a \in SearchKept \ Range(call.filtered) : ~Has(heap[a], "size")

\* the orders in which the criteria of the map can be visited
Orders(fc) ==
    {p \in [1..Len(fc) -> 1..Len(fc)] : \A i, j \in 1..Len(fc) : i # j => p[i] # p[j]}
Reordered(fc, p) == [i \in 1..Len(fc) |-> fc[p[i]]]

\* C14: the criteria are a strict conjunction whose result does not depend on
\* the iteration order: the surviving records are the records satisfying every
\* non-empty criterion, whatever order the criteria are visited in, and an
\* empty criterion ({}) removes no record.
C14_StrictConjunction ==
    Returned =>
        /\ Range(call.filtered) =
               {a \in SearchKept :
                   \A k \in 1..Len(filter_criteria) :
                       Meets(heap[a], filter_criteria[k][1], filter_criteria[k][2])}
        /\ \A p \in Orders(filter_criteria) :
               \E other \in {WithCriteria(Reordered(filter_criteria, p))} :
                   ~other.raised => other.filtered = call.filtered
        /\ \A k \in 1..Len(filter_criteria) :
               filter_criteria[k][2] = EmptyCriterion
                   => \E less \in {WithCriteria(SelectIdx(filter_criteria,
                                                         1..Len(filter_criteria) \ {k}))} :
                          ~less.raised /\ less.filtered = call.filtered
C14_Witness ==
    /\ Returned /\ Len(filter_criteria) = 2 /\ Len(call.input) = 3 /\ Len(call.filtered) = 1
    /\ \E a \in SearchKept :
           /\ Meets(heap[a], filter_criteria[1][1], filter_criteria[1][2])
           /\ ~Meets(heap[a], filter_criteria[2][1], filter_criteria[2][2])
    /\ \E a \in SearchKept :
           /\ ~Meets(heap[a], filter_criteria[1][1], filter_criteria[1][2])
           /\ Meets(heap[a], filter_criteria[2][1], filter_criteria[2][2])
    /\ ~WithCriteria(Reordered(filter_criteria, <<2, 1>>)).raised

\* the sort key of the claim: the number for the numeric fields (float() of
\* the challenge rating, int() of the armor class and the hit points), 0 for a
\* missing or empty value; the lower-cased string for the other fields, '' for
\* a missing value
ClaimKey(m, column) ==
    IF column \in NumericColumns
    THEN IF ~Has(m, column) \/ m[column] = EmptyStr THEN VInt(0)
         ELSE IF column = "challenge_rating" THEN ToFloat(m[column]).v
         ELSE ToInt(m[column]).v
    ELSE IF Has(m, column) THEN VStr(Lower(PyStr(m[column]))) ELSE EmptyStr

\* C15: when the sort column is a recognized sortable field, the output is
\* ordered by the per-record key, ascending, or descending when sort_reverse is
\* set.
C15_OrderedByKey ==
    (Returned /\ sort_column \in SortableColumns) =>
        \A i, j \in 1..Len(call.filtered) :
            i < j =>
                LET ki == ClaimKey(heap[call.filtered[i]], sort_column)
                    kj == ClaimKey(heap[call.filtered[j]], sort_column)
                IN  IF sort_reverse THEN ~KeyLess(ki, kj) ELSE ~KeyLess(kj, ki)
C15_Witness ==
    /\ Returned /\ sort_column = "challenge_rating" /\ sort_reverse
    /\ Len(call.input) = 3 /\ Len(call.filtered) = 3
    /\ heap[call.input[1]]["challenge_rating"] = VFloat(1)
    /\ heap[call.input[2]]["challenge_rating"] = VFloat(96)
    /\ heap[call.input[3]]["challenge_rating"] = VInt(0)
    /\ call.filtered = <<call.input[2], call.input[1], call.input[3]>>

\* C16: apply has no error outcome: whatever the records hold in the searched,
\* filtered or sorted fields, apply_filters_and_sort returns a result instead
\* of raising.
C16_NeverRaises ==
    Applied => ~call.raised

-----------------------------------------------------------------------------
(* Claims about persistence in the bulk edits, under SpecBulk *)

\* the changes hold a value that apply_bulk_changes applies
AnyValue(changes) == \E i \in 1..Len(changes) : changes[i][2] \notin {None, EmptyStr}

\* the saves of the call are those of the first records of the selection, in
\* the order of the selection, and every file written holds its record
SavedInTurn ==
    /\ Len(call.saves) <= Len(selected_monsters)
    /\ \A i \in 1..Len(call.saves) :
           /\ call.saves[i].monster = selected_monsters[i]
           /\ call.saves[i].written
                  => /\ call.saves[i].stem \in DOMAIN files
                     /\ files[call.saves[i].stem] = CleanData(heap[selected_monsters[i]])
    /\ IF call.raised
       THEN \A j \in (Len(call.saves) + 2)..Len(selected_monsters) :
                heap[selected_monsters[j]] = call.heap[selected_monsters[j]]
       ELSE AnyValue(call.changes) => Len(call.saves) = Len(selected_monsters)

\* C17 as stated: in a bulk edit each modified record is handed to persistence
\* right after it is mutated and before the next selected record is mutated,
\* and the files written before a failed write stay written (both tools).
C17_PersistedInTurn ==
    /\ BulkApplied => SavedInTurn
    /\ ItemsEdited => (ChangedItems # {} => call.saves # <<>>)

\* C17 amended: that holds of apply_bulk_changes of the monster manager; the
\* bulk edit of the item editor changes the items in memory and hands none of
\* them to save_item.
C17_MonstersPersistedInTurn ==
    /\ BulkApplied => SavedInTurn
    /\ ItemsEdited => call.saves = <<>>
C17_Witness ==
    /\ BulkApplied /\ ~call.raised /\ Len(call.saves) = 2
    /\ call.saves[1].written /\ ~call.saves[2].written
    /\ files[call.saves[1].stem] # call.files[call.saves[1].stem]


\* the bulk edit dialog of the monster manager reported an invalid number
InvalidReported == pc = "done" /\ call.op = "invalid"

\* the checked numeric fields of the item dialog whose text is not a number
NotNumbers ==
    {j \in 1..Len(call.checked) :
        /\ call.checked[j][1] \in NumericItemFields
        /\ Typed(call.checked, j) # <<>>
        /\ IF call.checked[j][1] = "stack" THEN ~ParseInt(Typed(call.checked, j)).ok
           ELSE ~ParseFloat(Typed(call.checked, j)).ok}

\* the selected items keep the fields whose text is not a number
NotNumbersSkipped ==
    \A j \in NotNumbers : \A key \in Range(call.selected_keys) :
        items[key][call.checked[j][1]] = call.items[key][call.checked[j][1]]

\* C18 as stated: a non-numeric string entered for a numeric field is reported
\* as a validation failure for that field, only that change is skipped and the
\* other valid changes of the same bulk edit are applied to the selected
\* records (both tools).
C18_OnlyInvalidSkipped ==
    /\ InvalidReported
           => \A a \in Range(selected_monsters) : \A i \in 1..Len(call.changes) :
                  (call.changes[i][2] \notin {None, EmptyStr} /\ call.changes[i][1] # "tags")
                      => heap[a][call.changes[i][1]] = call.changes[i][2]
    /\ (ItemsEdited /\ ~call.raised)
           => /\ NotNumbersSkipped
              /\ call.changes_made = Len(call.checked) - Cardinality(NotNumbers)

\* C18 amended: in the monster manager an invalid number is reported and the
\* dialog stays open: no change of that bulk edit is applied, no record and no
\* file is touched.  In the item editor a text that is not a number leaves
\* price, weight or stack of the selected items as they were, without a report:
\* the field is counted among the field changes applied, and the other checked
\* fields are set.
C18_InvalidNumberPerTool ==
    /\ InvalidReported
           => /\ heap = call.heap /\ files = call.files
              /\ monsters_data = call.monsters_data
              /\ ~call.reported
              /\ \E i \in 1..Len(call.changes) :
                     /\ call.changes[i][1] \in NumericColumns
                     /\ call.changes[i][2] = None
    /\ (ItemsEdited /\ ~call.raised)
           => /\ NotNumbersSkipped
              /\ call.changes_made = Len(call.checked)
              /\ \A j \in 1..Len(call.checked) \ NotNumbers :
                     Typed(call.checked, j) = <<>>
                         => \A key \in Range(call.selected_keys) :
                                items[key][call.checked[j][1]] = None
C18_Witness ==
    /\ ItemsEdited /\ ~call.raised /\ Len(call.checked) = 2
    /\ NotNumbers = {1} /\ call.changes_made = 2
    /\ \E key \in Range(call.selected_keys) :
           /\ Has(call.items[key], call.checked[1][1])
           /\ call.items[key][call.checked[2][1]] # None
           /\ items[key][call.checked[2][1]] = None

\* the monster manager reported an invalid number beside a valid change
InvalidBesideValid ==
    /\ InvalidReported
    /\ \E i \in 1..Len(call.changes) : call.changes[i][2] \notin {None, EmptyStr}

\* the places of the selection whose save wrote a file
Written == {i \in 1..Len(call.saves) : call.saves[i].written}

\* C19: a failed write of one record of a bulk operation is surfaced to the
\* caller for that record: the write is attempted once, later records are still
\* processed, and the caller tells the failed record from the saved ones, so
\* that the number of monsters it reports the changes applied to is the number
\* of records saved.
C19_FailureSurfaced ==
    (BulkApplied /\ ~call.raised /\ AnyValue(call.changes))
        => /\ Len(call.saves) = Len(selected_monsters)
           /\ \A i, j \in 1..Len(call.saves) :
                  call.saves[i].monster = call.saves[j].monster => i = j
           /\ call.count = Cardinality(Written)

\* the fields of the dict d other than filename, as written into `data`
WrittenAsIs(data, d, fields) ==
    /\ ~Has(data, "filename")
    /\ \A f \in fields \ {"filename"} : data[f] = d[f]

\* C20 as stated: no JSON object written by save_monster or export_selection
\* holds the key filename, and every other field of the record is written as
\* it is in memory.
C20_WrittenWithoutFilename ==
    /\ \A stem \in DOMAIN files : ~Has(files[stem], "filename")
    /\ BulkApplied
           => \A i \in Written :
                  WrittenAsIs(files[call.saves[i].stem], heap[selected_monsters[i]], Fields)
    /\ Exported
           => \A i \in 1..Len(selected_monsters) :
                  WrittenAsIs(call.export_data[i], heap[selected_monsters[i]], Fields)

\* C20 amended: ... every other field is written as it is in memory, except
\* that save_monster leaves out the tags of a record whose tags are empty;
\* export_selection writes every field but filename.
C20_FilenameStripped ==
    /\ \A stem \in DOMAIN files : ~Has(files[stem], "filename")
    /\ BulkApplied
           => \A i \in Written :
                  LET d == heap[selected_monsters[i]]
                      data == files[call.saves[i].stem]
                  IN  /\ WrittenAsIs(data, d, Fields \ {"tags"})
                      /\ data["tags"] = IF Falsy(d["tags"]) THEN Missing ELSE d["tags"]
    /\ Exported
           => \A i \in 1..Len(selected_monsters) :
                  WrittenAsIs(call.export_data[i], heap[selected_monsters[i]], Fields)
C20_Witness ==
    /\ BulkApplied /\ Len(call.saves) = 2 /\ Written = {1, 2}
    /\ \A i \in Written : Has(heap[selected_monsters[i]], "filename")
    /\ \E i \in Written :
           /\ heap[selected_monsters[i]]["tags"] = VList(<<>>)
           /\ ~Has(files[call.saves[i].stem], "tags")
    /\ \E i \in Written : ~Has(call.heap[selected_monsters[i]], "id")

-----------------------------------------------------------------------------
(* The Monster Manager: dialogs, field editor and the operations on files *)

\* required_fields of MonsterDialog.save_monster
RequiredFields == <<"name", "challenge_rating", "type", "size", "armor_class", "hit_points",
                    "alignment">>

\* the keys of a monster in the order MonsterDialog.save_monster and save_monster
\* insert them: the order of self.field_vars of the field editor
EditorOrder == RequiredFields \o <<"tags", "id">>

\* the text an entry is given for the key f of the dict d
EntryText(d, f) ==
    IF ~Has(d, f) THEN <<>>
    ELSE IF f = "tags" /\ d[f].t = "list" THEN Join(<<",", " ">>, d[f].v)
    ELSE PyStr(d[f])

\* the entries of MonsterDialog opened on the dict d, EmptyDict for "Add Monster"
DialogEntries(d) == [f \in Range(RequiredFields) \cup {"tags"} |-> EntryText(d, f)]

\* self.field_vars after update_field_editor(monster)
FieldVars(d) == [f \in Range(EditorOrder) |-> EntryText(d, f)]

\* what the user does to the entries: `name` is typed into the name entry unless
\* it is Keep; rest = "fill" types a value into every empty required entry,
\* rest = "bad" types x for the challenge rating
Keep == <<"keep">>

FillTexts ==
    [f \in Range(RequiredFields) |->
        IF f \in {"challenge_rating", "armor_class", "hit_points"} THEN <<"2">> ELSE <<"M">>]

Entered(entries, input) ==
    [f \in DOMAIN entries |->
        IF f = "name" /\ input.name # Keep THEN input.name
        ELSE IF f = "challenge_rating" /\ input.rest = "bad" THEN <<"x">>
        ELSE IF input.rest = "fill" /\ f # "tags" /\ f # "id" /\ Strip(entries[f]) = <<>>
        THEN FillTexts[f]
        ELSE entries[f]]

NameTexts == { <<"G">>, <<"B">>, <<"A", "B">>, <<" ">> }

AddInputs == { [name |-> n, rest |-> "fill"] : n \in NameTexts }
             \cup { [name |-> <<"G">>, rest |-> "bad"] }

EditInputs == { [name |-> n, rest |-> "fill"] : n \in NameTexts \cup {Keep} }
              \cup { [name |-> <<"G">>, rest |-> "keep"], [name |-> Keep, rest |-> "bad"] }

EditorInputs == { [name |-> n, rest |-> "keep"] : n \in NameTexts \cup {Keep} }
                \cup { [name |-> <<"G">>, rest |-> "bad"] }

\* MonsterDialog.save_monster on the texts of the entries: [ok, result]; ok =
\* FALSE is an error box (a required entry is empty, a number is invalid), the
\* dialog stays open and self.result stays None
MonsterDialogSave(texts) ==
    LET required == Range(RequiredFields)
        tags_str == Strip(texts["tags"])
    IN  IF \E f \in required : Strip(texts[f]) = <<>> \/ ~DialogValue(f, texts[f]).ok
        THEN [ok |-> FALSE, result |-> EmptyDict]
        ELSE [ok |-> TRUE,
              result |-> [f \in Fields |->
                             IF f \in required THEN DialogValue(f, texts[f]).v
                             ELSE IF f = "tags" /\ tags_str # <<>> THEN VList(NewTags(tags_str))
                             ELSE Missing]]

\* the value save_field_changes gives the field: [ok, v]; ok = FALSE is the
\* ValueError of float() or int(), v = Missing is `del`
FieldValue(field_name, value) ==
    IF field_name = "tags"
    THEN [ok |-> TRUE, v |-> IF value # <<>> THEN VList(NewTags(value)) ELSE Missing]
    ELSE IF field_name = "challenge_rating"
    THEN IF value # <<>> THEN ParseFloat(value) ELSE [ok |-> TRUE, v |-> VFloat(0)]
    ELSE IF field_name \in {"armor_class", "hit_points", "id"}
    THEN IF value # <<>> THEN ParseInt(value) ELSE [ok |-> TRUE, v |-> VInt(0)]
    ELSE [ok |-> TRUE, v |-> VStr(value)]

RECURSIVE FieldChanges(_, _, _)
\* the loop of save_field_changes over self.field_vars, from the dict d:
\* [d, raised]; the fields before an invalid number are already set
FieldChanges(d, texts, order) ==
    IF order = <<>> THEN [d |-> d, raised |-> FALSE]
    ELSE IF ~FieldValue(Head(order), Strip(texts[Head(order)])).ok
    THEN [d |-> d, raised |-> TRUE]
    ELSE FieldChanges([d EXCEPT ![Head(order)] =
                                    FieldValue(Head(order), Strip(texts[Head(order)])).v],
                      texts, Tail(order))

\* path.unlink() when path.exists()
Unlink(fls, stem) == [s \in DOMAIN fls \ {stem} |-> fls[s]]

RECURSIVE RemoveLoop(_, _, _)
\* the loop of remove_monster_dialog over self.selected_monsters: [files,
\* raised]; raised is the KeyError of monster['name'] or the TypeError of
\* sanitize_filename on a name that is no str
RemoveLoop(h, fls, selected) ==
    IF selected = <<>> THEN [files |-> fls, raised |-> FALSE]
    ELSE IF h[Head(selected)]["name"].t # "str" THEN [files |-> fls, raised |-> TRUE]
    ELSE RemoveLoop(h, Unlink(fls, SanitizeFilename(h[Head(selected)]["name"].v)),
                    Tail(selected))

\* the dict keys a field name can be typed for, by their characters
FieldKeys ==
    (<<"n", "a", "m", "e">> :> "name") @@ (<<"i", "d">> :> "id")
    @@ (<<"t", "y", "p", "e">> :> "type") @@ (<<"t", "a", "g", "s">> :> "tags")

\* re.sub(r'[^\w]', '_', field_name.lower())
FieldName(text) ==
    [i \in 1..Len(text) |-> IF IsWord(text[i]) THEN LowerChar(text[i]) ELSE "_"]

\* AddFieldDialog.add_field on the texts of its two entries: [ok, field_name,
\* field_value]; ok = FALSE is the error box "Field name is required!"
AddField(name_text, value_text) ==
    [ok |-> Strip(name_text) # <<>>,
     field_name |-> FieldName(Strip(name_text)),
     field_value |-> VStr(Strip(value_text))]

\* the texts typed into the add field dialog
AddFieldTexts ==
    { << <<"N", "a", "m", "e">>, <<" ">> >>, << <<"n", "a", "m", "e", " ">>, <<"G">> >>,
      << <<"I", "D">>, <<"7">> >>, << <<"t", "y", "p", "e">>, <<" ", "l", "i">> >>,
      << <<" ">>, <<"G">> >> }

\* one save of a loop over the selection, recorded behind st.saves
Saved(st, a, s) ==
    [heap |-> s.heap, files |-> s.files,
     saves |-> Append(st.saves, [monster |-> a, written |-> s.written, stem |-> s.stem])]

RECURSIVE AddFieldLoop(_, _, _, _, _, _)
\* the loop of bulk_add_field_dialog over self.selected_monsters from st =
\* [heap, files, saves]
AddFieldLoop(st, selected, field_name, field_value, monsters, locked) ==
    IF selected = <<>> THEN st
    ELSE AddFieldLoop(Saved(st, Head(selected),
                            SaveMonster([st.heap EXCEPT ![Head(selected)][field_name] = field_value],
                                        st.files, monsters, locked, Head(selected))),
                      Tail(selected), field_name, field_value, monsters, locked)

\* available_fields of bulk_remove_field_dialog
AvailableFields(h, selected) ==
    {f \in Fields \ {"id", "filename"} : \E a \in Range(selected) : Has(h[a], f)}

RECURSIVE RemoveFieldLoop(_, _, _, _, _)
\* the loop of bulk_remove_field_dialog over self.selected_monsters from st =
\* [heap, files, saves]; Len(saves) is its count
RemoveFieldLoop(st, selected, field_name, monsters, locked) ==
    IF selected = <<>> THEN st
    ELSE IF ~Has(st.heap[Head(selected)], field_name)
    THEN RemoveFieldLoop(st, Tail(selected), field_name, monsters, locked)
    ELSE RemoveFieldLoop(Saved(st, Head(selected),
                               SaveMonster([st.heap EXCEPT ![Head(selected)][field_name] = Missing],
                                           st.files, monsters, locked, Head(selected))),
                         Tail(selected), field_name, monsters, locked)

\* what an operation of the Monster Manager is remembered by: the state it
\* started from, the save_monster calls it made, whether an exception left
\* the handler, and what the operation was given
Managed(op, saves, raised, given) ==
    [op |-> op, heap |-> heap, files |-> files, monsters_data |-> monsters_data,
     selected |-> selected_monsters, saves |-> saves, raised |-> raised, given |-> given]

\* a handler that returns, or is left by an exception, before it changed anything
Unchanged(op, raised, given) ==
    /\ call' = Managed(op, <<>>, raised, given)
    /\ pc' = "done"
    /\ UNCHANGED <<heap, monsters_data, selected_monsters, files, unwritable,
                   search_var, filter_criteria, sort_column, sort_reverse, items,
                   current_item_key, images, field_widgets>>

\* the end of a handler: the loop left the heap h and the directory fls, and
\* refresh_monster_list() runs with the selection `selected`
Reloaded(op, h, fls, selected, saves, given) ==
    /\ \E r \in RefreshMonsterList(h, fls, search_var, filter_criteria, sort_column,
                                    sort_reverse) :
           /\ heap' = r.heap
           /\ monsters_data' = r.monsters_data
    /\ files' = fls
    /\ selected_monsters' = selected
    /\ call' = Managed(op, saves, FALSE, given)
    /\ pc' = "done"
    /\ UNCHANGED <<unwritable, search_var, filter_criteria, sort_column,
                   sort_reverse, items, current_item_key, images, field_widgets>>

\* self.save_monster(dialog.result); self.refresh_monster_list(): the result is
\* a new dict, fls the directory the dialog's caller left
SaveResult(op, result, fls, given) ==
    \E s \in {SaveMonster(Append(heap, result), fls, monsters_data, unwritable, Len(heap) + 1)} :
        Reloaded(op, s.heap, s.files, selected_monsters,
                 <<[monster |-> Len(heap) + 1, written |-> s.written, stem |-> s.stem]>>, given)

\* add_monster_dialog with "Save" pressed on the texts typed
AddMonsterDialog ==
    /\ pc = "ready"
    /\ \E input \in AddInputs :
       \E dialog \in {MonsterDialogSave(Entered(DialogEntries(EmptyDict), input))} :
           IF dialog.ok
           THEN SaveResult("add", dialog.result, files, dialog)
           ELSE Unchanged("add", FALSE, dialog)

\* edit_monster_dialog with "Save" pressed on the texts typed
EditMonsterDialog ==
    /\ pc = "ready"
    /\ Len(selected_monsters) = 1
    /\ \E input \in EditInputs :
       \E monster \in {heap[selected_monsters[1]]} :
       \E dialog \in {MonsterDialogSave(Entered(DialogEntries(monster), input))} :
       \E given \in {[ok |-> dialog.ok, result |-> dialog.result,
                      old_name |-> Get(monster, "name", None)]} :
           IF ~dialog.ok THEN Unchanged("edit", FALSE, given)
           ELSE IF PyEq(given.old_name, dialog.result["name"])
           THEN SaveResult("edit", dialog.result, files, given)
           ELSE IF given.old_name.t # "str"
           THEN Unchanged("edit", TRUE, given)     \* get_monster_path(None): TypeError
           ELSE SaveResult("edit", dialog.result,
                           Unlink(files, SanitizeFilename(given.old_name.v)), given)

\* remove_monster_dialog, the removal confirmed
RemoveMonsterDialog ==
    /\ pc = "ready"
    /\ selected_monsters # <<>>
    /\ \E end \in {RemoveLoop(heap, files, selected_monsters)} :
           IF end.raised
           THEN /\ files' = end.files
                /\ call' = Managed("remove", <<>>, TRUE, <<>>)
                /\ pc' = "done"
                /\ UNCHANGED <<heap, monsters_data, selected_monsters,
                               unwritable, search_var, filter_criteria, sort_column,
                               sort_reverse, items, current_item_key, images, field_widgets>>
           ELSE Reloaded("remove", heap, end.files, <<>>, <<>>, <<>>)

\* bulk_add_field_dialog with "Add Field" pressed on the texts typed
BulkAddFieldDialog ==
    /\ pc = "ready"
    /\ selected_monsters # <<>>
    /\ \E texts \in AddFieldTexts :
       \E given \in {AddField(texts[1], texts[2])} :
           IF ~given.ok THEN Unchanged("add_field", FALSE, given)
           ELSE \E end \in {AddFieldLoop([heap |-> heap, files |-> files, saves |-> <<>>],
                                         selected_monsters, FieldKeys[given.field_name],
                                         given.field_value, monsters_data, unwritable)} :
                    Reloaded("add_field", end.heap, end.files, selected_monsters, end.saves,
                             given)

\* bulk_remove_field_dialog with a field of the combobox chosen
BulkRemoveFieldDialog ==
    /\ pc = "ready"
    /\ selected_monsters # <<>>
    /\ \E field_name \in AvailableFields(heap, selected_monsters) :
       \E end \in {RemoveFieldLoop([heap |-> heap, files |-> files, saves |-> <<>>],
                                   selected_monsters, field_name, monsters_data, unwritable)} :
           Reloaded("remove_field", end.heap, end.files, selected_monsters, end.saves,
                    [field_name |-> field_name])

\* self.current_monster = None
NoMonster == 0

\* self.current_monster: on_monster_select shows self.selected_monsters[-1] in
\* the field editor and sets None for an empty selection
CurrentMonster ==
    IF selected_monsters = <<>> THEN NoMonster ELSE selected_monsters[Len(selected_monsters)]

\* save_field_changes on the texts of the field editor: an invalid number is
\* caught with the fields before it set and nothing saved
SaveFieldChanges ==
    /\ pc = "ready"
    /\ CurrentMonster # NoMonster
    /\ \E input \in EditorInputs :
       \E current \in {CurrentMonster} :
       \E d \in {heap[current]} :
       \E end \in {FieldChanges(d, Entered(FieldVars(d), input),
                                SelectIdx(EditorOrder, {i \in 1..Len(EditorOrder) :
                                                           Has(d, EditorOrder[i])}))} :
       \E given \in {[old_name |-> Get(d, "name", None), d |-> end.d, ok |-> ~end.raised]} :
           IF end.raised
           THEN /\ heap' = [heap EXCEPT ![current] = end.d]
                /\ call' = Managed("field", <<>>, FALSE, given)
                /\ pc' = "done"
                /\ UNCHANGED <<monsters_data, selected_monsters, files, unwritable,
                               search_var, filter_criteria, sort_column, sort_reverse, items,
                               current_item_key, images, field_widgets>>
           ELSE \E s \in {SaveMonster([heap EXCEPT ![current] = end.d], files,
                                      monsters_data, unwritable, current)} :
                    Reloaded("field", s.heap, s.files, selected_monsters,
                             <<[monster |-> current, written |-> s.written,
                                stem |-> s.stem]>>, given)

NextManage ==
    \/ \E rows \in SUBSET (1..Len(monsters_data)) : OnMonsterSelect(rows)
    \/ SelectAll
    \/ AddMonsterDialog
    \/ EditMonsterDialog
    \/ RemoveMonsterDialog
    \/ BulkEditDialog
    \/ BulkAddFieldDialog
    \/ BulkRemoveFieldDialog
    \/ SaveFieldChanges

\* a file made by hand: its name is not the one save_monster gives the file
\* of its monster
HandMade ==
    <<"g">> :> [EmptyDict EXCEPT !["name"] = VStr(<<"B">>), !["id"] = VInt(8),
                                 !["challenge_rating"] = VInt(0), !["type"] = VStr(<<"l", "i">>)]

ManageDirectories ==
    BulkDirectories \cup {HandMade, HandMade @@ [s \in {<<"b">>} |-> BulkFiles[s]]}

\* MonsterManagerGUI.__init__ on a directory of ManageDirectories
InitManage ==
    /\ files \in ManageDirectories
    /\ unwritable \in { {}, {<<"a", "b">>} }
    /\ search_var = <<>>
    /\ filter_criteria = <<>>
    /\ sort_column = "challenge_rating"
    /\ sort_reverse = FALSE
    /\ selected_monsters = <<>>
    /\ current_item_key = NoKey
    /\ images = NoImages
    /\ field_widgets = NoWidgets
    /\ \E r \in RefreshMonsterList(<<>>, files, search_var, filter_criteria, sort_column,
                                    sort_reverse) :
           /\ ~r.raised
           /\ heap = r.heap
           /\ monsters_data = r.monsters_data
    /\ items = NoItems
    /\ pc = "ready"
    /\ call = NoCall

SpecManage == InitManage /\ [][NextManage]_vars

\* an operation of the given kind has run
Ran(op) == pc = "done" /\ call.op = op

-----------------------------------------------------------------------------
(* Claims about the operations of the Monster Manager *)

\* the id of the file stem, None for a file without id
IdOf(fls, stem) == Get(fls[stem], "id", None)

\* the stem of the file the dict d was loaded from
LoadedFrom(d) == SubSeq(d["filename"].v, 1, Len(d["filename"].v) - Len(JsonSuffix))

\* C21: a record is never persisted with a missing or empty name: through the
\* add dialog, the edit dialog, the field editor, bulk edit, bulk add field and
\* bulk remove field no file is written for a record whose name is absent or
\* the empty string.
C21_NamePersisted ==
    (pc = "done" /\ call.op \in {"add", "edit", "field", "bulk", "add_field", "remove_field"})
        => \A i \in Written :
               /\ Has(files[call.saves[i].stem], "name")
               /\ files[call.saves[i].stem]["name"] # EmptyStr

\* C22: after a rename through edit_monster_dialog the file of the old name no
\* longer exists and the file of the new name does; after a rename through the
\* field editor both the old-name file and the new-name file exist.
C22_RenameOrphans ==
    /\ (Ran("edit") /\ call.given.ok /\ call.given.old_name.t = "str"
            /\ call.given.old_name # call.given.result["name"])
           => /\ SanitizeFilename(call.given.old_name.v) \notin DOMAIN files
              /\ SanitizeFilename(call.given.result["name"].v) \in DOMAIN files
    /\ (Ran("field") /\ call.given.ok /\ call.given.old_name.t = "str"
            /\ call.given.old_name # call.given.d["name"])
           => /\ SanitizeFilename(call.given.old_name.v) \in DOMAIN files
              /\ SanitizeFilename(call.given.d["name"].v) \in DOMAIN files

\* C23: after a confirmed remove_monster_dialog the file each selected record
\* was loaded from no longer exists, none of the selected records is in the
\* reloaded collection, the selection is empty, and no file of an unselected
\* record has been deleted.
C23_RemovesExactlySelected ==
    Ran("remove")
        => LET gone == {LoadedFrom(call.heap[call.selected[i]]) : i \in 1..Len(call.selected)}
           IN  /\ gone \cap DOMAIN files = {}
               /\ \A i \in 1..Len(monsters_data) : LoadedFrom(heap[monsters_data[i]]) \notin gone
               /\ selected_monsters = <<>>
               /\ DOMAIN call.files \ gone \subseteq DOMAIN files

\* C27: starting from files with pairwise distinct ids, after an add, an edit
\* through the dialog, a bulk edit, a bulk add field or a bulk remove field no
\* two monster files carry the same id.
C27_IdsStayUnique ==
    (pc = "done" /\ call.op \in {"add", "edit", "bulk", "add_field", "remove_field"})
        => \A s, t \in DOMAIN files :
               (s # t /\ Has(files[s], "id") /\ Has(files[t], "id"))
                   => IdOf(files, s) # IdOf(files, t)

-----------------------------------------------------------------------------
(* The column headers of the two editors *)

MaxClicks == 4

\* columns of the monster tree: every heading has command=sort_by_column(col)
TreeColumns == <<"name", "cr", "type", "size", "ac", "hp", "alignment", "tags">>

\* the key of a monster that refresh_monster_list shows in the column
ColumnField ==
    [c \in Range(TreeColumns) |->
        IF c = "cr" THEN "challenge_rating" ELSE IF c = "ac" THEN "armor_class"
        ELSE IF c = "hp" THEN "hit_points" ELSE c]

\* columns of the item tree with command=sort_by_column(col)
ItemColumns == <<"#0", "Type", "Price", "Weight", "Stack">>

\* a sort_by_column that keeps the direction when the column changes
ItemSortState_KeepsDirection(current, reverse, column) ==
    IF current = column THEN [sort_column |-> current, sort_reverse |-> ~reverse]
    ELSE [sort_column |-> column, sort_reverse |-> reverse]

\* self.sort_column and self.sort_reverse after sort_by_column(column) of the
\* monster manager
SortState(current, reverse, column) ==
    IF current = column THEN [sort_column |-> current, sort_reverse |-> ~reverse]
    ELSE [sort_column |-> column, sort_reverse |-> FALSE]

\* self.sort_column and self.sort_reverse after sort_by_column(column) of the
\* item editor
ItemSortState(current, reverse, column) ==
    IF current = column THEN [sort_column |-> current, sort_reverse |-> ~reverse]
    ELSE [sort_column |-> column, sort_reverse |-> FALSE]

\* the header clicks so far: the column of the last click, the length of the
\* run of clicks on it that the last click ends, and the number of clicks
Clicks == IF call.op = "sort" THEN call.clicks ELSE 0

Clicked(editor, column, raised) ==
    [op |-> "sort", editor |-> editor, column |-> column,
     run |-> IF call.op = "sort" /\ call.column = column THEN call.run + 1 ELSE 1,
     clicks |-> Clicks + 1, raised |-> raised]

\* sort_by_column(column) of the monster manager, refresh_monster_list() included
SortByColumn(column) ==
    /\ pc = "ready"
    /\ Clicks < MaxClicks
    /\ \E st \in {SortState(sort_column, sort_reverse, column)} :
       \E r \in RefreshMonsterList(heap, files, search_var, filter_criteria, st.sort_column,
                                   st.sort_reverse) :
       \E c \in {Collected(r.heap, r.monsters_data, selected_monsters)} :
           /\ sort_column' = st.sort_column
           /\ sort_reverse' = st.sort_reverse
           /\ heap' = c.heap
           /\ monsters_data' = c.monsters_data
           /\ selected_monsters' = c.selected_monsters
           /\ call' = Clicked("monsters", column, r.raised)
    /\ UNCHANGED <<files, unwritable, search_var, filter_criteria, items, current_item_key,
                   images, field_widgets, pc>>

\* sort_by_column(column) of the item editor; its refresh_item_list() redraws
\* the tree and assigns no attribute
ItemSortByColumn(column) ==
    /\ pc = "items"
    /\ Clicks < MaxClicks
    /\ \E st \in {ItemSortState(sort_column, sort_reverse, column)} :
           /\ sort_column' = st.sort_column
           /\ sort_reverse' = st.sort_reverse
    /\ call' = Clicked("items", column, FALSE)
    /\ UNCHANGED <<heap, monsters_data, selected_monsters, files, unwritable, search_var,
                   filter_criteria, items, current_item_key, images, field_widgets, pc>>

InitSort == InitBulk \/ InitItems

NextSort ==
    \/ \E i \in DOMAIN TreeColumns : SortByColumn(TreeColumns[i])
    \/ \E i \in DOMAIN ItemColumns : ItemSortByColumn(ItemColumns[i])

SpecSort == InitSort /\ [][NextSort]_vars

\* a header of the monster tree was clicked and the list was redrawn
MonstersSorted == call.op = "sort" /\ call.editor = "monsters" /\ ~call.raised

\* what the row of the monster m shows in the column, as a sort key
ShownKey(m, column) ==
    IF column = "tags" THEN VStr(Lower(EntryText(m, "tags")))
    ELSE ClaimKey(m, ColumnField[column])

\* C24: after sort_by_column(c) for a header column c of the monster tree
\* (name, cr, type, size, ac, hp, alignment, tags) the list displayed by the
\* following refresh is ordered by the field that column shows.
C24_SortedByClickedColumn ==
    MonstersSorted
        => \E shown \in {Displayed} :
               \A i, j \in 1..Len(shown) :
                   i < j =>
                       \E ki \in {ShownKey(heap[shown[i]], call.column)} :
                       \E kj \in {ShownKey(heap[shown[j]], call.column)} :
                           IF sort_reverse THEN ~KeyLess(ki, kj) ELSE ~KeyLess(kj, ki)

\* C25: in both editors sort_by_column(c) flips the direction and keeps the
\* column when c is the current sort column, and otherwise sets the column to
\* c and the direction to ascending: after any sequence of header clicks the
\* sort column is the column clicked last and the direction is descending
\* exactly when the last run of clicks on that column has even length.
C25_DirectionByRunLength ==
    call.op = "sort"
        => /\ sort_column = call.column
           /\ sort_reverse <=> (call.run % 2 = 0)
C25_Witness ==
    /\ call.op = "sort" /\ call.editor = "items" /\ call.clicks = 4 /\ call.run = 2
    /\ sort_column = "Price" /\ sort_reverse
C25_MonsterWitness ==
    /\ call.op = "sort" /\ call.editor = "monsters" /\ call.clicks = 4 /\ call.run = 3
    /\ sort_column = "name" /\ ~sort_reverse

-----------------------------------------------------------------------------
(* The selection buttons of the Monster Manager *)

\* the results of the advanced filter dialog
FilterResults == { <<>>, << <<"type", ContainsCriterion(VStr(<<"D", "r">>))>> >> }

\* advanced_filter_dialog closed with the result `result`
AdvancedFilterDialog(result) ==
    /\ pc = "ready"
    /\ result # filter_criteria
    /\ filter_criteria' = result
    /\ \E r \in RefreshMonsterList(heap, files, search_var, result, sort_column, sort_reverse) :
       \E c \in {Collected(r.heap, r.monsters_data, selected_monsters)} :
           /\ heap' = c.heap
           /\ monsters_data' = c.monsters_data
           /\ selected_monsters' = c.selected_monsters
    /\ UNCHANGED <<files, unwritable, search_var, sort_column, sort_reverse, items,
                   current_item_key, images, field_widgets, pc, call>>

\* [m.get('name') for m in monsters]
NamesOf(h, monsters) == [i \in 1..Len(monsters) |-> Get(h[monsters[i]], "name", None)]

\* name in names
NameIn(name, names) == \E j \in 1..Len(names) : PyEq(name, names[j])

\* select_none
SelectNone ==
    /\ pc = "ready"
    /\ Refreshed(<<>>, search_var)
    /\ call' = [op |-> "select_none", selected |-> NamesOf(heap, selected_monsters)]
    /\ pc' = "done"
    /\ UNCHANGED <<files, unwritable, search_var, filter_criteria, sort_column, sort_reverse,
                   items, current_item_key, images, field_widgets>>

\* invert_selection
InvertSelection ==
    /\ pc = "ready"
    /\ \E r \in {ApplyFiltersAndSort(heap, monsters_data, search_var, filter_criteria,
                                      sort_column, sort_reverse)} :
       \E selected_names \in {NamesOf(heap, selected_monsters)} :
       \E new_selection \in {SelectIdx(r.filtered,
                                       {i \in 1..Len(r.filtered) :
                                           ~NameIn(Get(heap[r.filtered[i]], "name", None),
                                                   selected_names)})} :
           /\ ~r.raised
           /\ Refreshed(new_selection, search_var)
           /\ call' = [op |-> "invert", selected |-> selected_names,
                       shown |-> NamesOf(heap, r.filtered),
                       result |-> NamesOf(heap, new_selection),
                       hidden |-> Len(monsters_data) - Len(r.filtered)]
    /\ pc' = "done"
    /\ UNCHANGED <<files, unwritable, search_var, filter_criteria, sort_column, sort_reverse,
                   items, current_item_key, images, field_widgets>>

NextSelect ==
    \/ \E text \in BulkSearchTexts : OnSearchChange(text)
    \/ \E result \in FilterResults : AdvancedFilterDialog(result)
    \/ SelectAll
    \/ SelectNone
    \/ InvertSelection

SpecSelect == InitBulk /\ [][NextSelect]_vars

\* the records that pass the search and the criteria, in the claims' words
Visible(h, monsters, text, fc) ==
    {a \in Range(monsters) :
        /\ SearchQuery(text) = <<>> \/ QueryFound(h[a], SearchQuery(text))
        /\ \A k \in 1..Len(fc) : Meets(h[a], fc[k][1], fc[k][2])}

\* the dicts at the addresses, by what they hold (the file they were loaded
\* from included)
Records(h, addresses) == {h[a] : a \in addresses}

\* the visible records before the step
VisibleNow == Records(heap, Visible(heap, monsters_data, search_var, filter_criteria))

\* the selection before the step
SelectedNow == Records(heap, Range(selected_monsters))

\* C26: select_all makes the selection exactly the records passing the current
\* search and criteria, select_none makes it empty, invert_selection makes it
\* exactly the visible records whose name was not in the previous selection,
\* and invert_selection on the selection select_all made yields the empty
\* selection.
C26_SelectionOnVisible ==
    [][ /\ (pc' = "ready" /\ search_var' = search_var /\ filter_criteria' = filter_criteria
             /\ SelectAll)
            => /\ SelectedNow' = VisibleNow'
               /\ Len(selected_monsters') = Cardinality(VisibleNow')
        /\ (pc' = "done" /\ call'.op = "select_none" /\ SelectNone)
            => selected_monsters' = <<>>
        /\ (pc' = "done" /\ call'.op = "invert" /\ InvertSelection)
            => /\ SelectedNow' = {d \in VisibleNow :
                                     ~NameIn(Get(d, "name", None),
                                             NamesOf(heap, selected_monsters))}
               /\ SelectedNow = VisibleNow => selected_monsters' = <<>>
      ]_vars
C26_Witness ==
    /\ call.op = "invert" /\ search_var # <<>> /\ call.hidden > 0
    /\ call.shown # <<>> /\ call.selected = call.shown
    /\ call.result = <<>> /\ selected_monsters = <<>>

-----------------------------------------------------------------------------
(* AdvancedItemEditor: the form, save_current_item and remove_field_dialog *)

\* core_fields of remove_field_dialog
CoreFields == {"name", "description", "price", "type", "weight", "stack", "ac", "damage", "heal",
               "tags", "notes"}

\* standard_fields of rebuild_basic_fields
StandardFields == CoreFields \ {"tags", "notes"}

\* the keys of the item files: the core fields, the image and a field added
\* with "Add Field"
EditorFields == CoreFields \cup {"img", "rarity"}

\* the item files with the keys of EditorFields
EditorItemFiles ==
    [key \in DOMAIN ItemFiles |->
        [f \in EditorFields |->
            IF f \in ItemFields THEN ItemFiles[key][f]
            ELSE IF f = "img" /\ key # <<"t">> THEN VStr(key)
            ELSE IF f = "rarity" /\ key = <<"s", "w">> THEN VStr(<<"c">>)
            ELSE IF f = "ac" /\ key = <<"s", "w">> THEN None
            ELSE IF f = "damage" /\ key = <<"s", "w">> THEN VStr(<<"1", "d", "8">>)
            ELSE Missing]]

\* all_fields: the keys any item has
AllFields(its) == {f \in EditorFields : \E key \in DOMAIN its : Has(its[key], f)}

\* the text of self.json_text: empty, the dump of an item, or text that is no JSON
EmptyText == [kind |-> "empty"]
BrokenText == [kind |-> "broken"]

\* json.dumps(item, indent=2)
JsonDumps(item) == [kind |-> "json", item |-> item]

\* json.loads(json_content): [raised, item_data]; raised is JSONDecodeError
JsonLoads(json_text) ==
    IF json_text.kind = "json" THEN [raised |-> FALSE, item_data |-> json_text.item]
    ELSE [raised |-> TRUE, item_data |-> <<>>]

\* rebuild_basic_fields(): new, empty widgets for standard_fields + other_fields
\* and new, empty tags and notes texts; self.json_text is not rebuilt
RebuildBasicFields(its, json_text) ==
    [entries |-> [f \in StandardFields \cup (AllFields(its) \ {"tags", "notes"}) |-> <<>>],
     tags_text |-> <<>>, notes_text |-> <<>>, json_text |-> json_text]

\* cp_to_gp(cp_value) for a price that is a whole number of quarter gold pieces
CpToGp(cp_value) ==
    IF Falsy(cp_value) THEN VFloat(0)
    ELSE IF ToInt(cp_value).ok THEN VFloat((4 * ToInt(cp_value).v.v) \div CopperPerGold)
    ELSE VFloat(0)

\* the text load_item_for_editing puts into the widget of the field
LoadedText(item, field) ==
    LET value == Get(item, field, EmptyStr)
    IN  IF value = None THEN <<>>
        ELSE IF field = "price" THEN PyStr(CpToGp(value))
        ELSE PyStr(value)

\* ', '.join(item['tags']) when item.get('tags')
ListText(item, field, sep) ==
    IF Falsy(Get(item, field, None)) THEN <<>> ELSE Join(sep, item[field].v)

\* load_item_for_editing(key, item) on the widgets of the form
LoadItemForEditing(item, widgets) ==
    [entries |-> [f \in DOMAIN widgets.entries |-> LoadedText(item, f)],
     tags_text |-> ListText(item, "tags", <<",", " ">>),
     notes_text |-> ListText(item, "notes", <<";", " ">>),
     json_text |-> JsonDumps(item)]

\* item_data[field] of save_current_item for the stripped text of the widget:
\* [raised, v]; raised is the ValueError of float() or int(), or the
\* OverflowError gp_to_cp does not catch; a price gp_to_cp cannot read is 0
FormValue(field, value) ==
    IF field = "price"
    THEN IF value = <<>> \/ ~ParseFloat(value).ok THEN [raised |-> FALSE, v |-> VInt(0)]
         ELSE [raised |-> ~GpToCp(ParseFloat(value).v).ok, v |-> GpToCp(ParseFloat(value).v).v]
    ELSE IF field = "weight"
    THEN IF value # <<>> THEN [raised |-> ~ParseFloat(value).ok, v |-> ParseFloat(value).v]
         ELSE [raised |-> FALSE, v |-> VInt(0)]
    ELSE IF field = "stack"
    THEN IF value # <<>> THEN [raised |-> ~ParseInt(value).ok, v |-> ParseInt(value).v]
         ELSE [raised |-> FALSE, v |-> VInt(1)]
    ELSE IF field \in {"ac", "damage", "heal"}
            /\ Lower(value) \in {<<"n", "o", "n", "e">>, <<"n", "u", "l", "l">>, <<>>}
    THEN [raised |-> FALSE, v |-> None]
    ELSE [raised |-> FALSE, v |-> VStr(value)]

\* [part.strip() for part in text.split(sep) if part.strip()], [] for no text
ListValue(text, sep) ==
    LET parts == Split(Strip(text), sep)
        stripped == [i \in 1..Len(parts) |-> Strip(parts[i])]
    IN  VList(SelectIdx(stripped, {i \in 1..Len(parts) : stripped[i] # <<>>}))

\* item_data built from the form fields: [raised, item_data]
ItemData(widgets) ==
    IF \E f \in DOMAIN widgets.entries : FormValue(f, Strip(widgets.entries[f])).raised
    THEN [raised |-> TRUE, item_data |-> <<>>]
    ELSE [raised |-> FALSE,
          item_data |-> [f \in EditorFields |->
                            IF f \in DOMAIN widgets.entries
                            THEN FormValue(f, Strip(widgets.entries[f])).v
                            ELSE IF f = "tags" THEN ListValue(widgets.tags_text, ",")
                            ELSE IF f = "notes" THEN ListValue(widgets.notes_text, ";")
                            ELSE Missing]]

\* save_item(key, data): True when the file was written
SaveItem(key, locked) == key \notin locked

\* a save_current_item that updates self.items whatever save_item returned
AfterSave_Always(its, key, item_data, saved) == [its EXCEPT ![key] = item_data]

\* if self.save_item(...): self.items[self.current_item_key] = item_data
AfterSave(its, key, item_data, saved) ==
    IF saved THEN [its EXCEPT ![key] = item_data] ELSE its

\* removable_fields that does not hold back the core fields
RemovableFields_All(its) == AllFields(its)

\* removable_fields of remove_field_dialog
RemovableFields(its) == AllFields(its) \ CoreFields

\* the loops of remove_fields: del item[field] for each item that has it
WithoutFields(its, selected_fields) ==
    [key \in DOMAIN its |->
        [f \in EditorFields |-> IF f \in selected_fields THEN Missing ELSE its[key][f]]]

\* what the user types before "Save": a text for one widget of the form, or
\* nothing
NoEdit == <<"", <<>> >>

FormEdits ==
    { NoEdit, <<"name", <<"A", "x">> >>, <<"weight", <<"x">> >>, <<"stack", <<"1", ".", "5">> >>,
      <<"price", <<"i", "n", "f">> >>, <<"price", <<"2", ".", "5">> >>,
      <<"ac", <<"N", "o", "n", "e">> >>, <<"tags_text", <<"a", ",", " ", ",", "b">> >> }

\* the form after the text was typed
KeyedIn(widgets, edit) ==
    IF edit[1] = "tags_text" THEN [widgets EXCEPT !.tags_text = edit[2]]
    ELSE IF edit[1] \in DOMAIN widgets.entries THEN [widgets EXCEPT !.entries[edit[1]] = edit[2]]
    ELSE widgets

\* what the user does to the Raw JSON text before "Save": nothing, a brace
\* deleted, another name
JsonEdits == {"keep", "broken", "name"}

JsonTyped(json_text, edit) ==
    IF edit = "broken" THEN BrokenText
    ELSE IF edit = "name" /\ json_text.kind = "json"
    THEN JsonDumps([json_text.item EXCEPT !["name"] = VStr(<<"A", "x">>)])
    ELSE json_text

\* what a save_current_item is remembered by
ItemSave(tab, widgets, built, saved) ==
    [op |-> "item_save", tab |-> tab, key |-> current_item_key, items |-> items,
     widgets |-> widgets, raised |-> built.raised, item_data |-> built.item_data,
     saved |-> saved]

\* on_item_select with the row of the item `key` alone selected
OnItemSelect(key) ==
    /\ pc = "edit"
    /\ key \in DOMAIN items
    /\ current_item_key' = key
    /\ field_widgets' = LoadItemForEditing(items[key], field_widgets)
    /\ UNCHANGED <<heap, monsters_data, selected_monsters, files, unwritable, search_var,
                   filter_criteria, sort_column, sort_reverse, items, images, pc, call>>

\* remove_fields of remove_field_dialog with the fields `chosen` selected in
\* the listbox and the removal confirmed
RemoveFields(chosen) ==
    /\ pc = "edit"
    /\ chosen # {}
    /\ chosen \subseteq RemovableFields(items)
    /\ items' = WithoutFields(items, chosen)
    /\ field_widgets' = RebuildBasicFields(items', field_widgets.json_text)
    /\ call' = [op |-> "remove_fields",
                items |-> IF call.op = "remove_fields" THEN call.items ELSE items,
                removed |-> IF call.op = "remove_fields" THEN call.removed \cup chosen
                            ELSE chosen]
    /\ UNCHANGED <<heap, monsters_data, selected_monsters, files, unwritable, search_var,
                   filter_criteria, sort_column, sort_reverse, current_item_key, images, pc>>

\* the end of save_current_item: the widgets as typed, item_data built or not
Saving(tab, widgets, built) ==
    \E saved \in {~built.raised /\ SaveItem(current_item_key, unwritable)} :
        /\ items' = IF built.raised THEN items
                    ELSE AfterSave(items, current_item_key, built.item_data, saved)
        /\ field_widgets' = IF saved /\ tab # "Raw JSON"
                            THEN [widgets EXCEPT !.json_text = JsonDumps(built.item_data)]
                            ELSE widgets
        /\ call' = ItemSave(tab, widgets, built, saved)
        /\ pc' = "done"
        /\ UNCHANGED <<heap, monsters_data, selected_monsters, files, unwritable, search_var,
                       filter_criteria, sort_column, sort_reverse, current_item_key, images>>

\* save_current_item on the tab "Basic Info" or "Raw JSON"
SaveCurrentItem ==
    /\ pc = "edit"
    /\ current_item_key # NoKey
    /\ \/ \E edit \in FormEdits :
          \E widgets \in {KeyedIn(field_widgets, edit)} :
              Saving("Basic Info", widgets, ItemData(widgets))
       \/ \E edit \in JsonEdits :
          \E widgets \in {[field_widgets EXCEPT !.json_text = JsonTyped(@, edit)]} :
              Saving("Raw JSON", widgets, JsonLoads(widgets.json_text))

\* AdvancedItemEditor.__init__ on the item files, one of which may not be
\* writable
InitItemEdit ==
    /\ items \in { [s \in S |-> EditorItemFiles[s]] : S \in SUBSET DOMAIN EditorItemFiles }
    /\ heap = <<>>
    /\ monsters_data = <<>>
    /\ selected_monsters = <<>>
    /\ current_item_key = NoKey
    /\ images = NoImages
    /\ field_widgets = RebuildBasicFields(items, EmptyText)
    /\ files = NoFiles
    /\ unwritable \in { {}, {<<"s", "w">>} }
    /\ search_var = <<>>
    /\ filter_criteria = <<>>
    /\ sort_column = NoColumn
    /\ sort_reverse = FALSE
    /\ pc = "edit"
    /\ call = NoCall

NextItemEdit ==
    \/ \E key \in DOMAIN EditorItemFiles : OnItemSelect(key)
    \/ \E chosen \in SUBSET EditorFields : RemoveFields(chosen)
    \/ SaveCurrentItem

SpecItemEdit == InitItemEdit /\ [][NextItemEdit]_vars

\* save_current_item has run
ItemSaved == pc = "done" /\ call.op = "item_save"

\* the text is no number for float() (weight) or int() (stack)
NotNumeric(field, text) ==
    /\ Strip(text) # <<>>
    /\ IF field = "weight" THEN ~ParseFloat(Strip(text)).ok ELSE ~ParseInt(Strip(text)).ok

\* one of the failures of save_current_item: the file cannot be written, the
\* Raw JSON text does not parse, weight or stack is not numeric
SaveFailed ==
    \/ call.key \in unwritable
    \/ call.tab = "Raw JSON" /\ call.widgets.json_text.kind # "json"
    \/ call.tab = "Basic Info" /\ \E f \in {"weight", "stack"} :
                                      NotNumeric(f, call.widgets.entries[f])

\* C28: save_current_item changes the in-memory item only when the file write
\* succeeded: if save_item fails, or the Raw JSON text does not parse, or
\* weight/stack is not numeric, self.items is left exactly as it was before
\* the call.
C28_ItemsChangeOnlyWhenWritten ==
    ItemSaved
        => /\ items # call.items => call.saved /\ call.key \notin unwritable
           /\ SaveFailed => items = call.items

\* an item whose file cannot be written was saved from a valid form that
\* differs from the item, and the item is as it was
C28_Witness ==
    /\ ItemSaved
    /\ call.key \in unwritable
    /\ call.tab = "Basic Info"
    /\ ~call.raised
    /\ call.item_data # call.items[call.key]
    /\ items = call.items

\* fields have been removed and nothing was saved since
FieldsRemoved == pc = "edit" /\ call.op = "remove_fields"

\* C29: after any sequence of remove-field operations every item still has
\* each of the core fields it had before with an unchanged value, and each
\* field chosen for removal is absent from every item.
C29_CoreFieldsSurvive ==
    FieldsRemoved
        => /\ DOMAIN items = DOMAIN call.items
           /\ \A key \in DOMAIN items :
                  /\ \A f \in CoreFields : items[key][f] = call.items[key][f]
                  /\ \A f \in call.removed : ~Has(items[key], f)

\* two removals took img and rarity from three items, one of which has the
\* core field ac set to None
C29_Witness ==
    /\ FieldsRemoved
    /\ call.removed = {"img", "rarity"}
    /\ Cardinality(DOMAIN items) = 3
    /\ \E key \in DOMAIN items :
           /\ Has(call.items[key], "img") /\ Has(call.items[key], "rarity")
           /\ items[key]["ac"] = None
    /\ field_widgets.entries = [f \in StandardFields |-> <<>>]

-----------------------------------------------------------------------------
(* optimize_time_pngs.py: the backup of the time-of-day images *)

\* the runs of the script that are followed
MaxRuns == 3

\* "originals", the backup_dir main passes and the word it filters by
Originals == <<"o", "r", "i", "g", "i", "n", "a", "l", "s">>

PngSuffix == <<".", "p", "n", "g">>

\* str(image_dir) + '/'
ImageDir == <<"t", "i", "m", "e", "/">>

\* str(png_file) for a file of image_dir
PathStr(name) == ImageDir \o name

\* backup_path / png_file.name, relative to image_dir
BackupFile(name) == Originals \o <<"/">> \o name

\* the files that may lie in image_dir before the first run: two images, an
\* image with "originals" in its name and a file that is no PNG
ImageNames ==
    { <<"d">> \o PngSuffix, <<"n">> \o PngSuffix, Originals \o PngSuffix,
      <<"d", ".", "t", "x", "t">> }

\* image_dir.glob("*.png"): the PNG files of image_dir itself
Glob(img) ==
    {p \in DOMAIN img : /\ "/" \notin Range(p)
                        /\ Len(p) >= Len(PngSuffix)
                        /\ SubSeq(p, Len(p) - Len(PngSuffix) + 1, Len(p)) = PngSuffix}

\* shutil.copy2(png_file, backup_file) for each file of `names`
Copied(img, names) ==
    [p \in DOMAIN img \cup {BackupFile(name) : name \in names} |->
        IF \E name \in names : p = BackupFile(name)
        THEN img[CHOOSE name \in names : p = BackupFile(name)]
        ELSE img[p]]

\* a backup that copies over a backup that exists
BackupOriginals_Overwrites(img, copies) ==
    LET png_files == Glob(img)
        wanted == {p \in png_files : ~IsSubstring(Originals, PathStr(p))}
    IN  IF png_files = {} THEN [ok |-> FALSE, raised |-> FALSE, images |-> img]
        ELSE [ok |-> TRUE, raised |-> ~(wanted \subseteq copies),
              images |-> Copied(img, wanted \cap copies)]

\* backup_originals(image_dir, "originals"): [ok, raised, images]; ok is the
\* value returned, raised a copy2 that fails, which ends the run; the copies
\* of the files in `copies` succeed
BackupOriginals(img, copies) ==
    LET png_files == Glob(img)
        wanted == {p \in png_files : /\ ~IsSubstring(Originals, PathStr(p))
                                     /\ BackupFile(p) \notin DOMAIN img}
    IN  IF png_files = {} THEN [ok |-> FALSE, raised |-> FALSE, images |-> img]
        ELSE [ok |-> TRUE, raised |-> ~(wanted \subseteq copies),
              images |-> Copied(img, wanted \cap copies)]

\* the loop of main over png_files: process_image saves a new version of each
\* file of `processed`, and fails on the others before it saves
Processed(img, processed) ==
    LET png_files == {p \in Glob(img) : ~IsSubstring(Originals, PathStr(p))}
    IN  [p \in DOMAIN img |-> IF p \in png_files \cap processed THEN img[p] + 1 ELSE img[p]]

\* the arguments the script is run with
ArgLists == { <<>>, <<"--no-backup">>, <<"--colors", "32">>, <<"--help">>, <<"--fast">> }

\* the argument loop of main: [run, do_backup]; run = FALSE is the return for
\* --help or an unknown argument
ParseArgs(args) ==
    [run |-> \A i \in 1..Len(args) : args[i] \notin {"--help", "--fast"},
     do_backup |-> \A i \in 1..Len(args) : args[i] # "--no-backup"]

\* main() after the arguments were read
Main(img, do_backup, copies, processed) ==
    IF ~do_backup THEN Processed(img, processed)
    ELSE IF ~BackupOriginals(img, copies).ok \/ BackupOriginals(img, copies).raised
    THEN BackupOriginals(img, copies).images
    ELSE Processed(BackupOriginals(img, copies).images, processed)

\* one run of the script
OptimizeTimePngs(args) ==
    /\ pc = "shell"
    /\ call.runs < MaxRuns
    /\ \E copies, processed \in SUBSET Glob(images) :
           images' = IF ParseArgs(args).run
                     THEN Main(images, ParseArgs(args).do_backup, copies, processed)
                     ELSE images
    /\ call' = [call EXCEPT !.runs = @ + 1,
                            !.no_backup = @ \/ (ParseArgs(args).run /\ ~ParseArgs(args).do_backup)]
    /\ UNCHANGED <<heap, monsters_data, selected_monsters, files, unwritable, search_var,
                   filter_criteria, sort_column, sort_reverse, items, current_item_key,
                   field_widgets, pc>>

\* the image directory before the first run: no originals/ yet
InitBackup ==
    /\ images \in { [p \in S |-> 0] : S \in SUBSET ImageNames }
    /\ heap = <<>>
    /\ monsters_data = <<>>
    /\ selected_monsters = <<>>
    /\ items = NoItems
    /\ current_item_key = NoKey
    /\ field_widgets = NoWidgets
    /\ files = NoFiles
    /\ unwritable = {}
    /\ search_var = <<>>
    /\ filter_criteria = <<>>
    /\ sort_column = NoColumn
    /\ sort_reverse = FALSE
    /\ pc = "shell"
    /\ call = [op |-> "optimize", runs |-> 0, first |-> images, no_backup |-> FALSE]

NextBackup == \E args \in ArgLists : OptimizeTimePngs(args)

SpecBackup == InitBackup /\ [][NextBackup]_vars

\* the files of originals/
Backups ==
    {p \in DOMAIN images : /\ Len(p) > Len(Originals)
                           /\ SubSeq(p, 1, Len(Originals) + 1) = Originals \o <<"/">>}

\* the image a file of originals/ is the backup of
BackupOf(p) == SubSeq(p, Len(Originals) + 2, Len(p))

\* C30: backups are never overwritten and images are processed only after the
\* backup step: after any number of runs without --no-backup every file in
\* originals/ is the version of its image that existed before the first run,
\* and an image that was processed has such a file.
C30_BackupIsFirstVersion ==
    (call.op = "optimize" /\ ~call.no_backup)
        => /\ \A p \in Backups :
                  /\ BackupOf(p) \in DOMAIN call.first
                  /\ images[p] = call.first[BackupOf(p)]
           /\ \A p \in DOMAIN call.first :
                  images[p] # call.first[p] => BackupFile(p) \in Backups

\* after several runs with backup an image was processed twice and its backup
\* is still the first version
C30_Witness ==
    /\ call.op = "optimize" /\ ~call.no_backup
    /\ call.runs >= 2
    /\ \E p \in DOMAIN call.first :
           /\ images[p] = call.first[p] + 2
           /\ BackupFile(p) \in Backups
           /\ images[BackupFile(p)] = call.first[p]

====
